---- MODULE Spec2Model ----
(***************************************************************************)
(* A model of the retrieval-augmented chat core of ChampollionLM:          *)
(*   - the chunker and the context fingerprint (services/embedding.py),    *)
(*   - the indexer and the retriever (EmbeddingService),                   *)
(*   - event stripping (clean_response) and the agentic loop               *)
(*     (services/base_chat.py, services/chat.py).                          *)
(*                                                                         *)
(* Strings are sequences of one-character strings, so that str.split,      *)
(* str.lower, the substring test and the regular expression of             *)
(* clean_response are computed character by character.                     *)
(***************************************************************************)
EXTENDS Integers, Sequences, FiniteSets, TLC

VARIABLES
    \* ---- chunker harness: one call of _chunk_text on a text typed in
    body,          \* the text body passed to _chunk_text
    chunkCall,     \* None, or Some([chunk_size, overlap]) of the call made
    chunks,        \* the list _chunk_text returned
    chunkRun,      \* a call of _chunk_text followed through its while loop
    \* ---- clean_response harness
    response,      \* the raw stream text accumulated so far
    plain,         \* the fragments of `response` that are not event frames
    pieces,        \* number of fragments appended to `response`
    cleaned,       \* None, or Some(clean_response(response))
    \* ---- agentic loop: one invocation of _agentic_loop (an async generator)
    pc,            \* where the generator stands
    iteration,     \* the loop variable of `for iteration in range(max_iterations)`
    messages,      \* the model-facing message list
    pending,       \* tool calls of the current reply not yet executed
    found,         \* None, or Some(what the search of the current tool call returned)
    stream,        \* the fragments yielded so far
    modelCalls,    \* number of calls of client.chat.complete_async
    toolCalls,     \* number of tool calls the model has issued
    replyLog,      \* what each model call returned, in order
    searchLog,     \* the Retriever calls made, in order: [query, outcome]
    \* ---- fingerprint harness: _source_hash on two source lists
    listA,         \* a list of sources (their ids, in the order given)
    listB,         \* another list of sources
    digests,       \* None, or Some(<<_source_hash(listA), _source_hash(listB)>>)
    \* ---- one EmbeddingService, made for one chat service
    ctx,           \* the context the owning chat service works on: <<kind, id>>
    collections,   \* self._collections: name -> None or Some(Collection object)
    chroma,        \* the store behind self._client: name -> None or Some(collection)
    lastOp,        \* the last call made on the service, with what it did
    \* ---- one chat request: the route's generate() around send_message
    env,           \* the user's credentials and the database's foreign keys
    req,           \* None, or Some(the request: kind, context id, session id, sources)
    db,            \* the committed content of the database
    txn,           \* the Messages flushed in the service's session, not committed
    tpc,           \* where the request stands
    client,        \* the frames the client has received
    tlog,          \* the provider calls and commits made outside the loop
    history,       \* the history send_message read before the loop
    title,         \* None, or Some(the title _generate_session_title returned)
    \* ---- requests served at the same time on one database
    engine,        \* the database behind settings.database_url
    turns,         \* per request: where it stands, its request, session and history
    storeOp,       \* the last call of clear_history or delete_session, if it was the last step
    titleWrites,   \* the title rewrites committed, in order: [session, slot, history]
    \* ---- the EmbeddingServices of the requests of one process, on one context
    shared,        \* whether the chromadb.Client() objects of a process share their collections
    svcs,          \* per request: its EmbeddingService and where its turn stands
    stores         \* the collection of the context in each client's store: None or Some(it)

chunkVars == <<body, chunkCall, chunks, chunkRun>>
cleanVars == <<response, plain, pieces, cleaned>>
loopVars == <<pc, iteration, messages, pending, found, stream, modelCalls, toolCalls,
              replyLog, searchLog>>
hashVars == <<listA, listB, digests>>
indexVars == <<ctx, collections, chroma, lastOp>>
turnVars == <<env, req, db, txn, tpc, client, tlog, history, title>>
storeVars == <<engine, turns, storeOp, titleWrites>>
procVars == <<shared, svcs, stores>>
vars == <<chunkVars, cleanVars, loopVars, hashVars, indexVars, turnVars, storeVars, procVars>>

\* Optional values: None, or Some(x).
None == <<>>
Some(x) == <<x>>

Min(a, b) == IF a <= b THEN a ELSE b

(***************************************************************************)
(* Bounds of the model.                                                    *)
(***************************************************************************)
MaxTextLen == 9      \* characters of a text typed into the chunker harness
MaxChunkSize == 3    \* largest chunk_size the chunker harness passes
MaxPieces == 3       \* fragments appended to a raw response
MaxToolCalls == 4    \* tool calls the model issues in one turn, over all replies
MaxSourceId == 3     \* sources have the ids 1..MaxSourceId
MaxTopK == 3         \* largest top_k passed to search

(***************************************************************************)
(* Chunker: embedding.py, _chunk_text.                                     *)
(***************************************************************************)
IsSpace(c) == c = " "

\* str.split() with no argument: the maximal runs of non-whitespace, in
\* order.  A word starts at a non-space that follows a space or is first.
WordStart(s, i) == ~IsSpace(s[i]) /\ (i = 1 \/ IsSpace(s[i - 1]))

RECURSIVE WordEnd(_, _)
WordEnd(s, i) == IF i < Len(s) /\ ~IsSpace(s[i + 1]) THEN WordEnd(s, i + 1) ELSE i

\* The words that start at the positions lo..hi (halving keeps the depth of
\* the recursion logarithmic in the length of the text).
RECURSIVE WordsIn(_, _, _)
WordsIn(s, lo, hi) ==
    IF lo > hi THEN <<>>
    ELSE IF lo = hi
         THEN IF WordStart(s, lo) THEN <<SubSeq(s, lo, WordEnd(s, lo))>> ELSE <<>>
         ELSE LET mid == (lo + hi) \div 2
              IN  WordsIn(s, lo, mid) \o WordsIn(s, mid + 1, hi)

Split(s) == WordsIn(s, 1, Len(s))

\* " ".join(words), over the words lo..hi.
RECURSIVE JoinIn(_, _, _)
JoinIn(ws, lo, hi) ==
    IF lo > hi THEN <<>>
    ELSE IF lo = hi THEN ws[lo]
    ELSE LET mid == (lo + hi) \div 2
         IN  JoinIn(ws, lo, mid) \o <<" ">> \o JoinIn(ws, mid + 1, hi)

Join(ws) == JoinIn(ws, 1, Len(ws))

\* The Python slice xs[start:end] for 0 <= start <= end.
Slice(xs, start, end) == SubSeq(xs, start + 1, Min(end, Len(xs)))

\* Faulty variant of NextStart: the overlap is dropped (`start = end`).
NextStartNoOverlap(end, overlap) == end

\* The start of the next window: `start = end - overlap`.
NextStart(end, overlap) == end - overlap

\* The while loop of _chunk_text.  It is evaluated for overlap < chunk_size
\* only: with overlap >= chunk_size the loop does not advance.
RECURSIVE ChunkLoop(_, _, _, _, _)
ChunkLoop(words, start, chunk_size, overlap, acc) ==
    IF start < Len(words)
    THEN LET end == start + chunk_size
             chunk == Join(Slice(words, start, end))
         IN  ChunkLoop(words, NextStart(end, overlap), chunk_size, overlap,
                       Append(acc, chunk))
    ELSE acc

\* A text of at most chunk_size words is returned as it is, whitespace kept.
ShortText(text, words, chunk_size) == Len(words) <= chunk_size

ChunkText(text, chunk_size, overlap) ==
    LET words == Split(text)
    IN  IF ShortText(text, words, chunk_size)
        THEN <<text>>
        ELSE ChunkLoop(words, 0, chunk_size, overlap, <<>>)

(***************************************************************************)
(* Chunker harness: a text is typed in, then _chunk_text is called once.   *)
(***************************************************************************)
ChunkChars == {"a", " "}

\* No call of _chunk_text is being followed.
NoRun ==
    [pc |-> "idle", words |-> <<>>, chunk_size |-> 0, overlap |-> 0, start |-> 0,
     acc |-> <<>>, beyond |-> 0]

ChunkInit ==
    /\ body = <<>>
    /\ chunkCall = None
    /\ chunks = <<>>
    /\ chunkRun = NoRun

TypeChar ==
    /\ chunkCall = None
    /\ Len(body) < MaxTextLen
    /\ chunkRun.pc = "idle"
    /\ \E c \in ChunkChars : body' = Append(body, c)
    /\ UNCHANGED <<chunkCall, chunks, chunkRun>>

CallChunkText ==
    /\ chunkCall = None
    /\ \E chunk_size \in 1..MaxChunkSize : \E overlap \in 0..(chunk_size - 1) :
          /\ chunkCall' = Some([chunk_size |-> chunk_size, overlap |-> overlap])
          /\ chunks' = ChunkText(body, chunk_size, overlap)
    /\ UNCHANGED <<body, chunkRun>>

(***************************************************************************)
(* The same call followed statement by statement, for every overlap up to  *)
(* chunk_size: the call, then one step for each turn of the while loop.    *)
(* The list of chunks is kept up to MaxTextLen + 1 entries, more than a    *)
(* text of MaxTextLen characters has words.                                *)
(***************************************************************************)
StartChunkText ==
    /\ chunkCall = None
    /\ chunkRun.pc = "idle"
    /\ \E chunk_size \in 1..MaxChunkSize : \E overlap \in 0..chunk_size :
          LET words == Split(body)
          IN  chunkRun' =
                IF ShortText(body, words, chunk_size)
                THEN [NoRun EXCEPT !.pc = "returned", !.words = words, !.chunk_size = chunk_size,
                                   !.overlap = overlap, !.acc = <<body>>]
                ELSE [NoRun EXCEPT !.pc = "loop", !.words = words, !.chunk_size = chunk_size,
                                   !.overlap = overlap]
    /\ UNCHANGED <<body, chunkCall, chunks>>

\* `while start < len(words)`: one turn, or the return.  A text has at
\* most MaxTextLen words; of the chunks appended after MaxTextLen + 1 only
\* the parity of their number is kept.
ChunkStep ==
    /\ chunkRun.pc = "loop"
    /\ chunkRun' =
          IF chunkRun.start < Len(chunkRun.words)
          THEN LET end == chunkRun.start + chunkRun.chunk_size
                   chunk == Join(Slice(chunkRun.words, chunkRun.start, end))
               IN  [chunkRun EXCEPT
                      !.start = NextStart(end, chunkRun.overlap),
                      !.acc = IF Len(chunkRun.acc) <= MaxTextLen
                              THEN Append(chunkRun.acc, chunk) ELSE chunkRun.acc,
                      !.beyond = IF Len(chunkRun.acc) <= MaxTextLen
                                 THEN 0 ELSE 1 - chunkRun.beyond]
          ELSE [chunkRun EXCEPT !.pc = "returned"]
    /\ UNCHANGED <<body, chunkCall, chunks>>

(***************************************************************************)
(* Event stripping: base_chat.py, BaseChatService.clean_response, and the  *)
(* same re.sub in chat.py, ChatService.send_message.                       *)
(*                                                                         *)
(*   re.sub(r'\[EVENT:[^\]]*(?:\[[^\]]*\])*[^\]]*\]', '', response)        *)
(*                                                                         *)
(* The matcher below is a backtracking matcher.  A position is the number  *)
(* of characters consumed so far; NoMatch stands for failure.  Each        *)
(* sub-pattern tries its alternatives in the order of the regular-         *)
(* expression engine (greedy: longest first) and hands the position to the *)
(* rest of the pattern; the first alternative for which the rest matches   *)
(* is the match.                                                           *)
(***************************************************************************)
EventPrefix == <<"[", "E", "V", "E", "N", "T", ":">>
NoMatch == -1

\* A literal at position i: the position after it, or NoMatch.
MatchLit(s, i, lit) ==
    IF i + Len(lit) <= Len(s) /\ SubSeq(s, i + 1, i + Len(lit)) = lit
    THEN i + Len(lit)
    ELSE NoMatch

\* The class [^\]].
NotRB(c) == c # "]"

\* The end of the longest run of [^\]] from position i.
RECURSIVE NotRBRun(_, _)
NotRBRun(s, i) ==
    IF i < Len(s) /\ NotRB(s[i + 1]) THEN NotRBRun(s, i + 1) ELSE i

\* \[[^\]]*\]  one bracketed group at position i: "[", then [^\]]* from its
\* longest run (j) down to the empty one, then "]".
RECURSIVE BracketedFrom(_, _, _)
BracketedFrom(s, lo, j) ==
    IF j < lo THEN NoMatch
    ELSE LET e == MatchLit(s, j, <<"]">>)
         IN  IF e # NoMatch THEN e ELSE BracketedFrom(s, lo, j - 1)

Bracketed(s, i) ==
    LET o == MatchLit(s, i, <<"[">>)
    IN  IF o = NoMatch THEN NoMatch ELSE BracketedFrom(s, o, NotRBRun(s, o))

\* The tail of the pattern,  [^\]]*\]  : the run from its longest (j) down.
RECURSIVE TailFrom(_, _, _)
TailFrom(s, lo, j) ==
    IF j < lo THEN NoMatch
    ELSE LET e == MatchLit(s, j, <<"]">>)
         IN  IF e # NoMatch THEN e ELSE TailFrom(s, lo, j - 1)

\* (?:\[[^\]]*\])*[^\]]*\]  : one more group first, then the tail.
RECURSIVE GroupsThenTail(_, _)
GroupsThenTail(s, i) ==
    LET g == Bracketed(s, i)
        more == IF g = NoMatch THEN NoMatch ELSE GroupsThenTail(s, g)
    IN  IF more # NoMatch THEN more ELSE TailFrom(s, i, NotRBRun(s, i))

\* [^\]]*(?:\[[^\]]*\])*[^\]]*\]  : the first run from its longest (j) down.
RECURSIVE FirstRunFrom(_, _, _)
FirstRunFrom(s, lo, j) ==
    IF j < lo THEN NoMatch
    ELSE LET e == GroupsThenTail(s, j)
         IN  IF e # NoMatch THEN e ELSE FirstRunFrom(s, lo, j - 1)

\* The whole pattern at position i: the end of the match, or NoMatch.
EventFrameEnd(s, i) ==
    LET o == MatchLit(s, i, EventPrefix)
    IN  IF o = NoMatch THEN NoMatch ELSE FirstRunFrom(s, o, NotRBRun(s, o))

\* re.sub(pattern, '', s): leftmost matches, scanned left to right.
RECURSIVE ReSub(_, _, _)
ReSub(s, pos, out) ==
    IF pos >= Len(s) THEN out
    ELSE LET ends == EventFrameEnd(s, pos)
         IN  IF ends # NoMatch
             THEN ReSub(s, ends, out)
             ELSE ReSub(s, pos + 1, Append(out, s[pos + 1]))

clean_response(s) == ReSub(s, 0, <<>>)

(***************************************************************************)
(* clean_response harness: a raw response is put together from answer     *)
(* text and event frames  [EVENT:<name>:<json-payload>]  as the agentic    *)
(* loop yields them, and is then cleaned.                                  *)
(***************************************************************************)
PlainTexts == { <<"A">>, <<"B">>, <<"o", "k", " ">> }
EventNames == { <<"x">> }
\* {}    {"a":[1,2]}    {"q":"z"}
FlatPayload == <<"{", "}">>
NestedPayload == <<"{", "\"", "a", "\"", ":", "[", "1", ",", "2", "]", "}">>
StringPayload == <<"{", "\"", "q", "\"", ":", "\"", "z", "\"", "}">>
Payloads == { FlatPayload, NestedPayload, StringPayload }

\* f'[EVENT:{name}:{json.dumps(payload)}]'
EventFrame(name, payload) == EventPrefix \o name \o <<":">> \o payload \o <<"]">>

CleanInit ==
    /\ response = <<>>
    /\ plain = <<>>
    /\ pieces = 0
    /\ cleaned = None

AppendText ==
    /\ cleaned = None
    /\ pieces < MaxPieces
    /\ \E t \in PlainTexts :
          /\ response' = response \o t
          /\ plain' = plain \o t
    /\ pieces' = pieces + 1
    /\ UNCHANGED cleaned

AppendEvent ==
    /\ cleaned = None
    /\ pieces < MaxPieces
    /\ \E name \in EventNames : \E payload \in Payloads :
          response' = response \o EventFrame(name, payload)
    /\ pieces' = pieces + 1
    /\ UNCHANGED <<plain, cleaned>>

CleanResponse ==
    /\ cleaned = None
    /\ cleaned' = Some(clean_response(response))
    /\ UNCHANGED <<response, plain, pieces>>


(***************************************************************************)
(* Agentic loop: base_chat.py, BaseChatService._agentic_loop, and the      *)
(* copy of it in chat.py, ChatService._agentic_loop.                       *)
(*                                                                         *)
(* The loop is an async generator.  An action is the code that runs from   *)
(* one suspension point (a yield, or the await of the model or of the      *)
(* search) to the next.  pc names the suspension point:                    *)
(*   "start"               created, not yet pulled                         *)
(*   "model"               awaiting client.chat.complete_async             *)
(*   "at_search_start"     suspended at the yield of search_start          *)
(*   "at_search_complete"  suspended at the yield of search_complete       *)
(*   "at_answer"           suspended at the yield of the answer text       *)
(*   "at_interrupted"      suspended at the yield after the for loop       *)
(*   "done"                the generator has returned                      *)
(*   "raised"              the generator has raised                        *)
(***************************************************************************)
max_iterations == 3

InterruptedText == "[Reponse interrompue - trop d'iterations]"
NoResultsText == "Aucun resultat trouve dans les sources."
SearchFailedText == "Erreur lors de la recherche dans les sources."
FoundText == "Extraits pertinents des sources:"

\* The tool calls a reply may carry: [id, name, arguments].  The id is the
\* provider's; here the position of the call in the turn.
ToolNames == {"search_sources", "other_tool"}
ToolQueries == {"mitochondria"}
ToolCallsOf(first, n) ==
    { tcs \in [1..n -> [id : first..(first + n - 1), name : ToolNames, query : ToolQueries]] :
        \A k \in 1..n : tcs[k].id = first + k - 1 }

\* What _search_sources / _execute_search returns to the loop:
\* (formatted results, source titles, chunk details).
SearchReturns ==
    { [results |-> FoundText, sources |-> <<"Notes">>, chunks |-> <<"chunk">>],
      [results |-> NoResultsText, sources |-> <<>>, chunks |-> <<>>],
      [results |-> SearchFailedText, sources |-> <<>>, chunks |-> <<>>] }

\* message.content of a reply without tool calls: None or "", a string, or
\* a list of typed segments of which the text segments are kept.
ReplyContents ==
    { [kind |-> "empty", segs |-> <<>>],
      [kind |-> "str", segs |-> <<[type |-> "text", text |-> "answer"]>>],
      [kind |-> "list", segs |-> <<[type |-> "text", text |-> "ans"],
                                   [type |-> "reference", text |-> "ref"],
                                   [type |-> "text", text |-> "wer"]>>] }

\* "".join(parts) over the text segments, as a list of the kept texts.
RECURSIVE TextParts(_)
TextParts(segs) ==
    IF segs = <<>> THEN <<>>
    ELSE IF Head(segs).type = "text"
         THEN <<Head(segs).text>> \o TextParts(Tail(segs))
         ELSE TextParts(Tail(segs))

Fragment(kind, data) == [kind |-> kind, data |-> data]
\* Faulty variant of SearchStartEvent: the query is left out of the event.
SearchStartEventNoQuery(query) == Fragment("search_start", <<"">>)

SearchStartEvent(query) == Fragment("search_start", <<query>>)
SearchCompleteEvent(ret) == Fragment("search_complete", <<ret.sources, ret.chunks>>)
AnswerFragment(content) == Fragment("text", TextParts(content.segs))
InterruptedFragment == Fragment("text", <<InterruptedText>>)

InitialMessages ==
    << [role |-> "system", tool_call_id |-> 0, content |-> "system prompt"],
       [role |-> "user", tool_call_id |-> 0, content |-> "question"] >>

AssistantToolCall(tc) ==
    [role |-> "assistant", tool_call_id |-> tc.id, content |-> tc.name]
\* Faulty variant of ToolResult: the result does not name its tool call.
ToolResultUntagged(tc, ret) ==
    [role |-> "tool", tool_call_id |-> 0, content |-> ret.results]

ToolResult(tc, ret) ==
    [role |-> "tool", tool_call_id |-> tc.id, content |-> ret.results]

LoopInit ==
    /\ pc = "start"
    /\ iteration = 0
    /\ messages = InitialMessages
    /\ pending = <<>>
    /\ found = None
    /\ stream = <<>>
    /\ modelCalls = 0
    /\ toolCalls = 0
    /\ replyLog = <<>>
    /\ searchLog = <<>>

\* The tool calls left once those that are not search_sources are skipped
\* (`if tool_call.function.name == "search_sources"` has no else branch).
RECURSIVE SkipOtherTools(_)
SkipOtherTools(tcs) ==
    IF tcs = <<>> THEN <<>>
    ELSE IF Head(tcs).name = "search_sources" THEN tcs
    ELSE SkipOtherTools(Tail(tcs))

\* Faulty variant of LoopGoesOn: the range is one too long
\* (`range(max_iterations + 1)`).
LoopGoesOnOneMore(it) == it + 1 < max_iterations + 1

\* The for loop goes on after iteration `it`: true while range(max_iterations)
\* has a next value.
LoopGoesOn(it) == it + 1 < max_iterations

\* `continue`: the next value of range(max_iterations), or the statement
\* after the for loop, which yields the interruption message.
Continue(strm) ==
    IF LoopGoesOn(iteration)
    THEN /\ iteration' = iteration + 1
         /\ pc' = "model"
         /\ stream' = strm
    ELSE /\ iteration' = iteration
         /\ pc' = "at_interrupted"
         /\ stream' = Append(strm, InterruptedFragment)

\* `for tool_call in message.tool_calls`, from the calls in `tcs`, up to the
\* next yield.
RunToolCalls(tcs, strm) ==
    LET rest == SkipOtherTools(tcs)
    IN  IF rest # <<>>
        THEN /\ pending' = rest
             /\ stream' = Append(strm, SearchStartEvent(Head(rest).query))
             /\ pc' = "at_search_start"
             /\ iteration' = iteration
        ELSE /\ pending' = <<>>
             /\ Continue(strm)

\* First pull: the credential is read and the client is made.
LoopBeginWith(api_key) ==
    /\ pc = "start"
    /\ pc' = IF api_key THEN "model" ELSE "raised"
    /\ UNCHANGED <<iteration, messages, pending, found, stream, modelCalls, toolCalls, replyLog, searchLog>>

LoopBegin == \E api_key \in BOOLEAN : LoopBeginWith(api_key)

\* Faulty variant of ModelRaises: the failure is taken for the end of the
\* iterations and the interruption message is yielded.
ModelRaisesThenInterrupts ==
    /\ pc = "model"
    /\ modelCalls' = modelCalls + 1
    /\ replyLog' = Append(replyLog, "raised")
    /\ pc' = "at_interrupted"
    /\ stream' = Append(stream, InterruptedFragment)
    /\ UNCHANGED <<iteration, messages, pending, found, toolCalls, searchLog>>

\* client.chat.complete_async raises.
ModelRaises ==
    /\ pc = "model"
    /\ modelCalls' = modelCalls + 1
    /\ replyLog' = Append(replyLog, "raised")
    /\ pc' = "done"
    /\ UNCHANGED <<iteration, messages, pending, found, stream, toolCalls, searchLog>>

\* The reply has no choices.
ModelNoChoices ==
    /\ pc = "model"
    /\ modelCalls' = modelCalls + 1
    /\ replyLog' = Append(replyLog, "no_choices")
    /\ pc' = "done"
    /\ UNCHANGED <<iteration, messages, pending, found, stream, toolCalls, searchLog>>

\* The reply requests n tools.
ModelRequestsToolsN(n) ==
    /\ pc = "model"
    /\ toolCalls + n <= MaxToolCalls
    /\ \E tcs \in ToolCallsOf(toolCalls + 1, n) :
          /\ toolCalls' = toolCalls + n
          /\ RunToolCalls(tcs, stream)
    /\ modelCalls' = modelCalls + 1
    /\ replyLog' = Append(replyLog, "tool_calls")
    /\ UNCHANGED <<messages, found, searchLog>>

\* The reply requests tools.
ModelRequestsTools ==
    \E n \in 1..(MaxToolCalls - toolCalls) : ModelRequestsToolsN(n)

\* The reply has no tool call: its content is the answer.
ModelAnswers ==
    /\ pc = "model"
    /\ \E content \in ReplyContents :
          IF content.kind = "empty"
          THEN /\ pc' = "done"
               /\ stream' = stream
          ELSE /\ pc' = "at_answer"
               /\ stream' = Append(stream, AnswerFragment(content))
    /\ modelCalls' = modelCalls + 1
    /\ replyLog' = Append(replyLog, "content")
    /\ UNCHANGED <<iteration, messages, pending, found, toolCalls, searchLog>>

\* What a call of the Retriever (embedding_svc.search / search_project) does.
RetrieverOutcomes == {"results", "empty", "raises"}

\* Faulty variant of SearchSources: the exception of the Retriever is not
\* caught.
SearchSourcesUncaught(outcome) ==
    CASE outcome = "raises" -> None
      [] outcome = "empty" ->
            Some([results |-> NoResultsText, sources |-> <<>>, chunks |-> <<>>])
      [] OTHER ->
            Some([results |-> FoundText, sources |-> <<"Notes">>, chunks |-> <<"chunk">>])

\* _search_sources / _execute_search: None when it raises, else Some(what it
\* returns).  An exception of the Retriever is caught and turned into the
\* search-failed text.
SearchSources(outcome) ==
    CASE outcome = "raises" ->
            Some([results |-> SearchFailedText, sources |-> <<>>, chunks |-> <<>>])
      [] outcome = "empty" ->
            Some([results |-> NoResultsText, sources |-> <<>>, chunks |-> <<>>])
      [] OTHER ->
            Some([results |-> FoundText, sources |-> <<"Notes">>, chunks |-> <<"chunk">>])

\* Resumed after search_start: the search runs, search_complete is yielded.
\* An exception that leaves _search_sources leaves the generator.
Search ==
    /\ pc = "at_search_start"
    /\ \E outcome \in RetrieverOutcomes :
          /\ searchLog' = Append(searchLog, [query |-> Head(pending).query, outcome |-> outcome])
          /\ LET ret == SearchSources(outcome)
             IN  IF ret = None
                 THEN /\ pc' = "raised"
                      /\ UNCHANGED <<found, stream>>
                 ELSE /\ ret[1] \in SearchReturns
                      /\ found' = ret
                      /\ stream' = Append(stream, SearchCompleteEvent(ret[1]))
                      /\ pc' = "at_search_complete"
    /\ UNCHANGED <<iteration, messages, pending, modelCalls, toolCalls, replyLog>>

\* Resumed after search_complete: the tool call and its result are appended,
\* then the next tool call runs, or the loop continues.
AppendToolResult ==
    /\ pc = "at_search_complete"
    /\ LET tc == Head(pending)
           ret == found[1]
       IN  messages' = messages \o <<AssistantToolCall(tc), ToolResult(tc, ret)>>
    /\ found' = None
    /\ RunToolCalls(Tail(pending), stream)
    /\ UNCHANGED <<modelCalls, toolCalls, replyLog, searchLog>>

\* Resumed after the answer or after the interruption message: return.
Finish ==
    /\ pc \in {"at_answer", "at_interrupted"}
    /\ pc' = "done"
    /\ UNCHANGED <<iteration, messages, pending, found, stream, modelCalls, toolCalls, replyLog, searchLog>>



(***************************************************************************)
(* Context fingerprint: embedding.py, _source_hash.                        *)
(*                                                                         *)
(*   ids = sorted([s.id for s in sources])                                 *)
(*   return hashlib.md5(str(ids).encode()).hexdigest()[:12]                *)
(***************************************************************************)
SourceIds == 1..MaxSourceId

IdSet(ids) == { ids[k] : k \in 1..Len(ids) }

\* The lists of n distinct source ids: a relationship loaded from the
\* database holds each source once, in any order.
RECURSIVE IdListsOfLen(_)
IdListsOfLen(n) ==
    IF n = 0 THEN { <<>> }
    ELSE UNION { { Append(l, i) : i \in SourceIds \ IdSet(l) } : l \in IdListsOfLen(n - 1) }

IdLists == UNION { IdListsOfLen(n) : n \in 0..MaxSourceId }

\* sorted(): insertion of x into an ascending list.
RECURSIVE Insert(_, _)
Insert(x, sorted) ==
    IF sorted = <<>> THEN <<x>>
    ELSE IF x <= Head(sorted) THEN <<x>> \o sorted
    ELSE <<Head(sorted)>> \o Insert(x, Tail(sorted))

RECURSIVE Sorted(_)
Sorted(xs) == IF xs = <<>> THEN <<>> ELSE Insert(Head(xs), Sorted(Tail(xs)))

\* str() of a non-negative int, and of a list of ints: "[1, 2, 3]".
Digit(d) == <<"0", "1", "2", "3", "4", "5", "6", "7", "8", "9">>[d + 1]
RECURSIVE StrInt(_)
StrInt(n) == IF n < 10 THEN <<Digit(n)>> ELSE StrInt(n \div 10) \o <<Digit(n % 10)>>

RECURSIVE StrItems(_)
StrItems(xs) ==
    IF xs = <<>> THEN <<>>
    ELSE IF Len(xs) = 1 THEN StrInt(xs[1])
    ELSE StrInt(xs[1]) \o <<",", " ">> \o StrItems(Tail(xs))

StrList(xs) == <<"[">> \o StrItems(xs) \o <<"]">>

\* hashlib.md5(s.encode()).hexdigest()[:12], for the strings of the model:
\* the renderings of the lists of distinct ids in 1..4 (values computed
\* with hashlib).
Md5Hex12(s) ==
    CASE s = <<"[", "]">> -> "d75171398898"   \* []
      [] s = <<"[", "1", "]">> -> "35dba5d75538"   \* [1]
      [] s = <<"[", "2", "]">> -> "beb4dbf9af06"   \* [2]
      [] s = <<"[", "3", "]">> -> "f2577a6fc29b"   \* [3]
      [] s = <<"[", "4", "]">> -> "e962e23c139e"   \* [4]
      [] s = <<"[", "1", ",", " ", "2", "]">> -> "04cd0e0151f3"   \* [1, 2]
      [] s = <<"[", "1", ",", " ", "3", "]">> -> "ad1ef70ad058"   \* [1, 3]
      [] s = <<"[", "1", ",", " ", "4", "]">> -> "a4f73fc65ce3"   \* [1, 4]
      [] s = <<"[", "2", ",", " ", "1", "]">> -> "6b8567cadaab"   \* [2, 1]
      [] s = <<"[", "2", ",", " ", "3", "]">> -> "d916f9e587b5"   \* [2, 3]
      [] s = <<"[", "2", ",", " ", "4", "]">> -> "fc35bbe12b14"   \* [2, 4]
      [] s = <<"[", "3", ",", " ", "1", "]">> -> "43899e12324b"   \* [3, 1]
      [] s = <<"[", "3", ",", " ", "2", "]">> -> "db7e1ada63a5"   \* [3, 2]
      [] s = <<"[", "3", ",", " ", "4", "]">> -> "d8b28cb48c33"   \* [3, 4]
      [] s = <<"[", "4", ",", " ", "1", "]">> -> "496710de5703"   \* [4, 1]
      [] s = <<"[", "4", ",", " ", "2", "]">> -> "cc75670449fd"   \* [4, 2]
      [] s = <<"[", "4", ",", " ", "3", "]">> -> "637daae38660"   \* [4, 3]
      [] s = <<"[", "1", ",", " ", "2", ",", " ", "3", "]">> -> "49a5a960c571"   \* [1, 2, 3]
      [] s = <<"[", "1", ",", " ", "2", ",", " ", "4", "]">> -> "61287444b0d6"   \* [1, 2, 4]
      [] s = <<"[", "1", ",", " ", "3", ",", " ", "2", "]">> -> "e426f531de51"   \* [1, 3, 2]
      [] s = <<"[", "1", ",", " ", "3", ",", " ", "4", "]">> -> "821203cf88f0"   \* [1, 3, 4]
      [] s = <<"[", "1", ",", " ", "4", ",", " ", "2", "]">> -> "ec52e8ba6449"   \* [1, 4, 2]
      [] s = <<"[", "1", ",", " ", "4", ",", " ", "3", "]">> -> "bc14442f6693"   \* [1, 4, 3]
      [] s = <<"[", "2", ",", " ", "1", ",", " ", "3", "]">> -> "67bd3bc28cee"   \* [2, 1, 3]
      [] s = <<"[", "2", ",", " ", "1", ",", " ", "4", "]">> -> "a16bb220541d"   \* [2, 1, 4]
      [] s = <<"[", "2", ",", " ", "3", ",", " ", "1", "]">> -> "89d461babdd3"   \* [2, 3, 1]
      [] s = <<"[", "2", ",", " ", "3", ",", " ", "4", "]">> -> "fc0927822476"   \* [2, 3, 4]
      [] s = <<"[", "2", ",", " ", "4", ",", " ", "1", "]">> -> "3721d8765378"   \* [2, 4, 1]
      [] s = <<"[", "2", ",", " ", "4", ",", " ", "3", "]">> -> "48186a7ca2e2"   \* [2, 4, 3]
      [] s = <<"[", "3", ",", " ", "1", ",", " ", "2", "]">> -> "a09ea8dad38e"   \* [3, 1, 2]
      [] s = <<"[", "3", ",", " ", "1", ",", " ", "4", "]">> -> "a805eb05a680"   \* [3, 1, 4]
      [] s = <<"[", "3", ",", " ", "2", ",", " ", "1", "]">> -> "b97c72702f44"   \* [3, 2, 1]
      [] s = <<"[", "3", ",", " ", "2", ",", " ", "4", "]">> -> "4524d31a79ca"   \* [3, 2, 4]
      [] s = <<"[", "3", ",", " ", "4", ",", " ", "1", "]">> -> "b75dbc423722"   \* [3, 4, 1]
      [] s = <<"[", "3", ",", " ", "4", ",", " ", "2", "]">> -> "999f888b1c9e"   \* [3, 4, 2]
      [] s = <<"[", "4", ",", " ", "1", ",", " ", "2", "]">> -> "bcafb1727ce6"   \* [4, 1, 2]
      [] s = <<"[", "4", ",", " ", "1", ",", " ", "3", "]">> -> "911aa36b6edd"   \* [4, 1, 3]
      [] s = <<"[", "4", ",", " ", "2", ",", " ", "1", "]">> -> "e269238e2434"   \* [4, 2, 1]
      [] s = <<"[", "4", ",", " ", "2", ",", " ", "3", "]">> -> "64a67a63912e"   \* [4, 2, 3]
      [] s = <<"[", "4", ",", " ", "3", ",", " ", "1", "]">> -> "7f7db24d7136"   \* [4, 3, 1]
      [] s = <<"[", "4", ",", " ", "3", ",", " ", "2", "]">> -> "ab588282d509"   \* [4, 3, 2]
      [] s = <<"[", "1", ",", " ", "2", ",", " ", "3", ",", " ", "4", "]">> -> "d5397571a7f9"   \* [1, 2, 3, 4]
      [] s = <<"[", "1", ",", " ", "2", ",", " ", "4", ",", " ", "3", "]">> -> "5eebea3932ea"   \* [1, 2, 4, 3]
      [] s = <<"[", "1", ",", " ", "3", ",", " ", "2", ",", " ", "4", "]">> -> "69f660e6ea64"   \* [1, 3, 2, 4]
      [] s = <<"[", "1", ",", " ", "3", ",", " ", "4", ",", " ", "2", "]">> -> "773975bfdb29"   \* [1, 3, 4, 2]
      [] s = <<"[", "1", ",", " ", "4", ",", " ", "2", ",", " ", "3", "]">> -> "080bf0a3b4ea"   \* [1, 4, 2, 3]
      [] s = <<"[", "1", ",", " ", "4", ",", " ", "3", ",", " ", "2", "]">> -> "19b60ae4c06b"   \* [1, 4, 3, 2]
      [] s = <<"[", "2", ",", " ", "1", ",", " ", "3", ",", " ", "4", "]">> -> "709bba0daf71"   \* [2, 1, 3, 4]
      [] s = <<"[", "2", ",", " ", "1", ",", " ", "4", ",", " ", "3", "]">> -> "891fa3747e5f"   \* [2, 1, 4, 3]
      [] s = <<"[", "2", ",", " ", "3", ",", " ", "1", ",", " ", "4", "]">> -> "1262b43c8a5a"   \* [2, 3, 1, 4]
      [] s = <<"[", "2", ",", " ", "3", ",", " ", "4", ",", " ", "1", "]">> -> "29f01cf67693"   \* [2, 3, 4, 1]
      [] s = <<"[", "2", ",", " ", "4", ",", " ", "1", ",", " ", "3", "]">> -> "bf7bd409faa3"   \* [2, 4, 1, 3]
      [] s = <<"[", "2", ",", " ", "4", ",", " ", "3", ",", " ", "1", "]">> -> "484710877562"   \* [2, 4, 3, 1]
      [] s = <<"[", "3", ",", " ", "1", ",", " ", "2", ",", " ", "4", "]">> -> "d7f14e5a6b6a"   \* [3, 1, 2, 4]
      [] s = <<"[", "3", ",", " ", "1", ",", " ", "4", ",", " ", "2", "]">> -> "e5b8601493c5"   \* [3, 1, 4, 2]
      [] s = <<"[", "3", ",", " ", "2", ",", " ", "1", ",", " ", "4", "]">> -> "9721e0544dfe"   \* [3, 2, 1, 4]
      [] s = <<"[", "3", ",", " ", "2", ",", " ", "4", ",", " ", "1", "]">> -> "e69ea9c5b5c0"   \* [3, 2, 4, 1]
      [] s = <<"[", "3", ",", " ", "4", ",", " ", "1", ",", " ", "2", "]">> -> "9f0125fa4ce3"   \* [3, 4, 1, 2]
      [] s = <<"[", "3", ",", " ", "4", ",", " ", "2", ",", " ", "1", "]">> -> "152e2ab54725"   \* [3, 4, 2, 1]
      [] s = <<"[", "4", ",", " ", "1", ",", " ", "2", ",", " ", "3", "]">> -> "b1162df65747"   \* [4, 1, 2, 3]
      [] s = <<"[", "4", ",", " ", "1", ",", " ", "3", ",", " ", "2", "]">> -> "835fcc786076"   \* [4, 1, 3, 2]
      [] s = <<"[", "4", ",", " ", "2", ",", " ", "1", ",", " ", "3", "]">> -> "7f285219da13"   \* [4, 2, 1, 3]
      [] s = <<"[", "4", ",", " ", "2", ",", " ", "3", ",", " ", "1", "]">> -> "60de46f21d9c"   \* [4, 2, 3, 1]
      [] s = <<"[", "4", ",", " ", "3", ",", " ", "1", ",", " ", "2", "]">> -> "1695ec83079e"   \* [4, 3, 1, 2]
      [] s = <<"[", "4", ",", " ", "3", ",", " ", "2", ",", " ", "1", "]">> -> "d2b273605fa4"   \* [4, 3, 2, 1]

\* Faulty variant of SourceHash: the ids are hashed in the order given (no sorted()).
SourceHashUnsorted(ids) == Md5Hex12(StrList(ids))

\* _source_hash, on the list of the ids of `sources`.
SourceHash(ids) == Md5Hex12(StrList(Sorted(ids)))

(***************************************************************************)
(* Fingerprint harness: two source lists are put together, then hashed.    *)
(***************************************************************************)
HashInit ==
    /\ listA = <<>>
    /\ listB = <<>>
    /\ digests = None

AddSourceA ==
    /\ digests = None
    /\ \E id \in SourceIds \ IdSet(listA) : listA' = Append(listA, id)
    /\ UNCHANGED <<listB, digests>>

AddSourceB ==
    /\ digests = None
    /\ \E id \in SourceIds \ IdSet(listB) : listB' = Append(listB, id)
    /\ UNCHANGED <<listA, digests>>

HashSources ==
    /\ digests = None
    /\ digests' = Some(<<SourceHash(listA), SourceHash(listB)>>)
    /\ UNCHANGED <<listA, listB>>


(***************************************************************************)
(* Sources: rows of the Source table, read-only to the service.  The row   *)
(* of an id is fixed; the four kinds of row repeat with the id:            *)
(*   1  a long text, one word more than CHUNK_SIZE (two chunks)            *)
(*   2  a whitespace-only processed_content                                *)
(*   3  an empty processed_content and no content                          *)
(*   4  a short text                                                       *)
(***************************************************************************)
CHUNK_SIZE == 150
CHUNK_OVERLAP == 30

\* "Ab c c ... c": CHUNK_SIZE + 1 words.
LongText ==
    [i \in 1..(2 * CHUNK_SIZE + 2) |->
        IF i = 1 THEN "A" ELSE IF i = 2 THEN "b" ELSE IF i % 2 = 1 THEN " " ELSE "c"]
BlankText == <<" ", " ">>
ShortTextBody == <<"a", "B", " ", "z">>

SourceRow(id) ==
    CASE id % 4 = 1 -> [id |-> id, title |-> "Notes",
                        processed_content |-> None, content |-> Some(LongText)]
      [] id % 4 = 2 -> [id |-> id, title |-> "Blank",
                        processed_content |-> Some(BlankText), content |-> Some(<<"r">>)]
      [] id % 4 = 3 -> [id |-> id, title |-> "Empty",
                        processed_content |-> Some(<<>>), content |-> None]
      [] OTHER      -> [id |-> id, title |-> "Cell",
                        processed_content |-> Some(ShortTextBody), content |-> None]

\* Python truth of an Optional[str]: None and "" are false.
Truthy(opt) == opt # None /\ opt[1] # <<>>

\* `source.processed_content or source.content`
ContentOf(source) ==
    IF Truthy(source.processed_content) THEN source.processed_content ELSE source.content

\* `if not content: continue`
Indexable(source) == Truthy(ContentOf(source))

(***************************************************************************)
(* Indexer: embedding.py, EmbeddingService.index_sources and               *)
(* index_project_sources (the same code under another collection name).    *)
(*                                                                         *)
(* A Collection object keeps the id and the metadata it was created with;  *)
(* reads go to the store by that id, so an object whose collection was     *)
(* deleted from the store cannot be read any more.  Only whether the id of *)
(* the object in self._collections is that of the collection in the store  *)
(* matters, so two ids are enough: a new collection takes the id the       *)
(* object in self._collections does not have.                              *)
(***************************************************************************)
Contexts == { <<"doc", 1>>, <<"project", 1>> }

\* f"doc_{document_id}", f"project_{project_id}"
CollectionName(kind, id) == <<kind, id>>
Names == { CollectionName(c[1], c[2]) : c \in Contexts }

NoOp ==
    [op |-> "none", name |-> <<"", 0>>, ids |-> <<>>, query |-> <<>>, top_k |-> 0,
     outcome |-> "ok", embedded |-> <<>>, results |-> <<>>, nearest |-> <<>>]

IndexInit ==
    /\ ctx \in Contexts
    /\ collections = [n \in Names |-> None]
    /\ chroma = [n \in Names |-> None]
    /\ lastOp = NoOp

\* The chunks of one source, as the entries of all_ids / all_chunks /
\* all_metadatas: f"{source.id}_{i}", chunk, {source_id, source_title, chunk_index}.
SourceItems(source) ==
    LET cs == ChunkText(ContentOf(source)[1], CHUNK_SIZE, CHUNK_OVERLAP)
    IN  [i \in 1..Len(cs) |->
            [id |-> <<source.id, i - 1>>,
             document |-> cs[i],
             metadata |-> [source_id |-> source.id, source_title |-> source.title,
                           chunk_index |-> i - 1]]]

\* The body of `for source in sources` for each row of the sources table,
\* evaluated once: the entries a source adds to all_ids / all_chunks /
\* all_metadatas, none when it has no content.
SourceItemsTable ==
    [id \in 1..MaxSourceId |->
        LET source == SourceRow(id)
        IN  IF Indexable(source) THEN SourceItems(source) \o <<>> ELSE <<>>] \o <<>>

\* `for source in sources`: the chunks of every source with content.
RECURSIVE AllItems(_)
AllItems(ids) ==
    IF ids = <<>> THEN <<>>
    ELSE SourceItemsTable[Head(ids)] \o AllItems(Tail(ids))

Documents(items) == [i \in 1..Len(items) |-> items[i].document]

\* The check at the top of index_sources: a Collection object is recorded
\* for the name and its metadata carries the same source_hash.
AlreadyIndexed(name, source_hash) ==
    /\ collections[name] # None
    /\ collections[name][1].source_hash = source_hash

\* The id of the collection made by create_collection.
NewUid(name) ==
    IF collections[name] # None /\ collections[name][1].uid = 1 THEN 2 ELSE 1

\* What the embedding provider does with a call: it answers, it fails, or
\* no credential is configured and _get_mistral raises before any call.
Providers == {"ok", "error", "no_key"}

\* The source lists passed to the indexer: the sources of the document or
\* project as the relationship loads them, by increasing or by decreasing
\* id, so that every set of sources comes in two orders.
Reverse(xs) == [k \in 1..Len(xs) |-> xs[Len(xs) + 1 - k]]
SourceLists == { l \in IdLists : l = Sorted(l) \/ Reverse(l) = Sorted(l) }

\* The body shared by index_sources and index_project_sources.
Index(name, ids, provider) ==
    LET source_hash == SourceHash(ids)
        op == [NoOp EXCEPT !.op = "index", !.name = name, !.ids = ids]
    IN  IF AlreadyIndexed(name, source_hash)
        THEN /\ UNCHANGED <<collections, chroma>>
             /\ lastOp' = op
        ELSE LET uid == NewUid(name)
                 object == [uid |-> uid, source_hash |-> source_hash]
                 items == AllItems(ids)
                 stored(its) == Some([uid |-> uid, source_hash |-> source_hash, items |-> its])
             IN  IF items = <<>>
                 THEN \* no content to index: the empty collection is recorded
                      /\ chroma' = [chroma EXCEPT ![name] = stored(<<>>)]
                      /\ collections' = [collections EXCEPT ![name] = Some(object)]
                      /\ lastOp' = op
                 ELSE IF provider = "ok"
                 THEN /\ chroma' = [chroma EXCEPT ![name] = stored(items)]
                      /\ collections' = [collections EXCEPT ![name] = Some(object)]
                      /\ lastOp' = [op EXCEPT !.embedded = <<Documents(items)>>]
                 ELSE \* _embed_texts raises: the old collection is deleted,
                      \* the new one is created and empty, nothing is recorded
                      /\ chroma' = [chroma EXCEPT ![name] = stored(<<>>)]
                      /\ UNCHANGED collections
                      /\ lastOp' = [op EXCEPT
                            !.outcome = "error",
                            !.embedded = IF provider = "error" THEN <<Documents(items)>> ELSE <<>>]

index_sources ==
    /\ ctx[1] = "doc"
    /\ \E ids \in SourceLists : \E provider \in Providers :
          Index(CollectionName("doc", ctx[2]), ids, provider)
    /\ UNCHANGED ctx

index_project_sources ==
    /\ ctx[1] = "project"
    /\ \E ids \in SourceLists : \E provider \in Providers :
          Index(CollectionName("project", ctx[2]), ids, provider)
    /\ UNCHANGED ctx

(***************************************************************************)
(* Retriever: embedding.py, EmbeddingService.search and search_project.    *)
(* Distances and scores are in thousandths: 1.0 is 1000, 0.5 is 500.       *)
(***************************************************************************)
\* str.lower() on the ASCII letters.
LowerOf ==
    [A |-> "a", B |-> "b", C |-> "c", D |-> "d", E |-> "e", F |-> "f", G |-> "g",
     H |-> "h", I |-> "i", J |-> "j", K |-> "k", L |-> "l", M |-> "m", N |-> "n",
     O |-> "o", P |-> "p", Q |-> "q", R |-> "r", S |-> "s", T |-> "t", U |-> "u",
     V |-> "v", W |-> "w", X |-> "x", Y |-> "y", Z |-> "z"]
Lower(s) == [i \in 1..Len(s) |-> IF s[i] \in DOMAIN LowerOf THEN LowerOf[s[i]] ELSE s[i]]

\* `needle in haystack` on strings.
Contains(haystack, needle) ==
    \E i \in 1..(Len(haystack) - Len(needle) + 1) :
        \A j \in 1..Len(needle) : haystack[i + j - 1] = needle[j]

\* `query_lower in doc.lower()`
KeywordMatch(query, doc) == Contains(Lower(doc), Lower(query))

\* ChunkResult(source_id, source_title, content, score)
ChunkResult(item, score) ==
    [source_id |-> item.metadata.source_id, source_title |-> item.metadata.source_title,
     content |-> item.document, score |-> score]

\* The keyword loop over all_data["documents"], in the order of the collection.
KeywordMatches(items, query) ==
    LET hit(item) == KeywordMatch(query, item.document)
        hits == SelectSeq(items, hit)
    IN  [i \in 1..Len(hits) |-> ChunkResult(hits[i], 1000)]

\* Faulty variant of TopK: the matches are not cut to top_k.
TopKAll(matches, top_k) == matches

\* keyword_matches[:top_k]
TopK(matches, top_k) == SubSeq(matches, 1, Min(top_k, Len(matches)))

\* The distances the store may report for a stored chunk: similarity
\* exactly 0.5, and 0.499.
Dists == {500, 501}

\* collection.query(n_results = top_k): the stored chunks by increasing
\* distance to the query (equal distances in insertion order), cut to
\* n_results.
RECURSIVE ByDistance(_, _)
ByDistance(rest, dist) ==
    IF rest = {} THEN <<>>
    ELSE LET m == CHOOSE i \in rest :
                    \A j \in rest : dist[i] < dist[j] \/ (dist[i] = dist[j] /\ i <= j)
         IN  <<m>> \o ByDistance(rest \ {m}, dist)

Query(items, dist, n_results) ==
    LET order == ByDistance(1..Len(items), dist)
    IN  [r \in 1..Min(n_results, Len(items)) |->
            [item |-> items[order[r]], distance |-> dist[order[r]]]]

\* Faulty variant of Relevant: the floor is exclusive.
RelevantStrict(distance) == 1000 - distance > 500

\* `if (1 - distance) >= 0.5`
Relevant(distance) == 1000 - distance >= 500

\* The loop that formats the results of collection.query.
VectorResults(nearest) ==
    LET keep(n) == Relevant(n.distance)
        kept == SelectSeq(nearest, keep)
    IN  [i \in 1..Len(kept) |-> ChunkResult(kept[i].item, 1000 - kept[i].distance)]

\* The collection a recorded Collection object reads: the one in the store
\* with the id of the object, if it is still there.
ReadCollection(name) ==
    IF /\ collections[name] # None
       /\ chroma[name] # None
       /\ chroma[name][1].uid = collections[name][1].uid
    THEN chroma[name] ELSE None

Queries == { <<"a", "B">>, <<"C">>, <<"q">> }

\* The body shared by search and search_project.
SearchCollection(name, query, top_k) ==
    LET op == [NoOp EXCEPT !.op = "search", !.name = name, !.query = query, !.top_k = top_k]
    IN  IF collections[name] = None
        THEN lastOp' = op                               \* collection not found: []
        ELSE IF ReadCollection(name) = None
        THEN lastOp' = [op EXCEPT !.outcome = "error"]  \* collection.get raises
        ELSE LET items == ReadCollection(name)[1].items
                 keyword_matches == KeywordMatches(items, query)
             IN  IF keyword_matches # <<>>
                 THEN lastOp' = [op EXCEPT !.results = TopK(keyword_matches, top_k)]
                 ELSE \E provider \in Providers :
                        IF provider = "ok"
                        THEN \E dist \in [1..Len(items) -> Dists] :
                               LET nearest == Query(items, dist, top_k)
                               IN  lastOp' = [op EXCEPT
                                      !.embedded = << <<query>> >>,
                                      !.nearest = [r \in 1..Len(nearest) |->
                                                     [id |-> nearest[r].item.id,
                                                      distance |-> nearest[r].distance]],
                                      !.results = VectorResults(nearest)]
                        ELSE lastOp' = [op EXCEPT
                                !.outcome = "error",
                                !.embedded = IF provider = "error"
                                             THEN << <<query>> >> ELSE <<>>]

search ==
    /\ ctx[1] = "doc"
    /\ \E query \in Queries : \E top_k \in 1..MaxTopK :
          SearchCollection(CollectionName("doc", ctx[2]), query, top_k)
    /\ UNCHANGED <<ctx, collections, chroma>>

search_project ==
    /\ ctx[1] = "project"
    /\ \E query \in Queries : \E top_k \in 1..MaxTopK :
          SearchCollection(CollectionName("project", ctx[2]), query, top_k)
    /\ UNCHANGED <<ctx, collections, chroma>>

\* Faulty variant of RetrieverOutcome: an empty result list is formatted
\* like any other.
RetrieverOutcomeNoEmpty(op) ==
    IF op.outcome = "error" THEN "raises" ELSE "results"

\* What _search_sources / _execute_search makes of a call of the Retriever:
\* its `except Exception`, then `if not results` of format_search_results.
RetrieverOutcome(op) ==
    IF op.outcome = "error" THEN "raises"
    ELSE IF op.results = <<>> THEN "empty"
    ELSE "results"

(***************************************************************************)
(* One chat request: the route's generate() around send_message.           *)
(* Document chat is routes/chat.py and services/chat.py; project chat is   *)
(* routes/project_chat.py and services/project_chat.py.  The service and   *)
(* its database session are made for the request (api/deps.py), so the     *)
(* Messages flushed and not committed are lost when the request ends.      *)
(*                                                                         *)
(* tpc is the position of the request:                                     *)
(*   "idle"            the service is made, generate() has not started     *)
(*   "rejected"        the route has answered 404 without a stream         *)
(*   "streaming"       send_message is in `async for chunk in the loop`    *)
(*   "title"           the assistant Message is committed, the title call  *)
(*                     is about to be made                                 *)
(*   "title_write"     _generate_session_title has returned a title        *)
(*   "at_title_event"  suspended at the yield of title_generated           *)
(*   "returned"        generate() has yielded [DONE] and returned          *)
(*   "failed"          generate() has yielded [ERROR] and returned         *)
(*   "broken"          an exception has left generate()                    *)
(*   "cancelled"       the caller has stopped consuming the stream         *)
(***************************************************************************)

\* user.api_key_encrypted: absent, decryptable, or not decryptable;
\* demo: a shared demo key is configured and the user's access is active;
\* fk: the database enforces foreign keys (PostgreSQL does, SQLite as the
\* engine is configured does not).
Envs == [own : {"none", "valid", "corrupt"}, demo : BOOLEAN, fk : BOOLEAN]

get_effective_api_key_sync(e) ==
    IF e.own = "valid" THEN Some("own")
    ELSE IF e.demo THEN Some("demo")
    ELSE None

\* The rows of the store before the request.  Projects 1 and 2 and
\* document 1 are the user's, project 3 and document 2 are another user's;
\* session s is a session of project s; no session has id 4.
SessionIds == {1, 2, 3}
\* Titles are lists of tokens: words, blanks and quotes.
PlaceholderTitle == <<"Nouvelle", " ", "conversation">>

Message(id, kind, context, session_id, role, content, metadata, created_at) ==
    [id |-> id, kind |-> kind, context |-> context, session_id |-> session_id,
     role |-> role, content |-> content, metadata |-> metadata,
     created_at |-> created_at]

NewSessions ==
    [s \in SessionIds |-> [project |-> s, title |-> PlaceholderTitle, updated_at |-> 0]]

EmptyStore == [messages |-> <<>>, sessions |-> NewSessions]

\* An earlier turn of document 1 and an earlier turn of session 1.
UsedStore ==
    [messages |->
        << Message(1, "doc", 1, None, "user", <<"earlier question">>, None, 1),
           Message(2, "doc", 1, None, "assistant", <<"earlier answer">>, None, 2),
           Message(3, "project", 1, Some(1), "user", <<"earlier question">>, None, 3),
           Message(4, "project", 1, Some(1), "assistant", <<"earlier answer">>,
                   Some([sources_used |-> <<"Notes">>, chunks_found |-> <<"chunk">>]), 4) >>,
     sessions |-> [NewSessions EXCEPT ![1] = [project |-> 1, title |-> <<"Earlier", " ", "title">>, updated_at |-> 5]]]

\* datetime.now(tz=UTC): a reading later than every stamp of the store.
Now(d, t) ==
    LET stamps == { d.messages[k].created_at : k \in 1..Len(d.messages) }
                  \cup { t[k].created_at : k \in 1..Len(t) }
                  \cup { d.sessions[s].updated_at : s \in DOMAIN d.sessions }
    IN  1 + CHOOSE m \in stamps \cup {0} : \A x \in stamps : x <= m

\* The primary key the database gives to a new row.
NextId(d, t) == Len(d.messages) + Len(t) + 1

\* The requests a caller may make of the service of context ctx: its own
\* document or project or another user's, with no source or with source 2,
\* and, in project chat, with no session id or the id of a session of this
\* project, of another project of the user, of another user's project, or
\* of no session.
RequestSourceLists == { <<>>, <<2>> }

\* The numbers of tool calls a reply carries in a chat request.
ToolCallCounts == {1}
Requests(kind) ==
    IF kind = "doc"
    THEN [kind : {"doc"}, id : {1, 2}, session_id : {None}, ids : RequestSourceLists]
    ELSE [kind : {"project"}, id : {1, 3}, session_id : {None} \cup { Some(s) : s \in SessionIds \cup {4} }, ids : RequestSourceLists]

TurnInit ==
    /\ env \in Envs
    /\ db \in {EmptyStore, UsedStore}
    /\ req = None
    /\ txn = <<>>
    /\ tpc = "idle"
    /\ client = <<>>
    /\ tlog = <<>>
    /\ history = <<>>
    /\ title = None

\* ChatService.get_document / ProjectChatService.get_project: the row when
\* it is the user's.
get_document(id) == id \in {1}
get_project(id) == id \in {1, 2}

\* ProjectChatService.get_session: the session when it exists and its own
\* project is the user's.
get_session(d, session_id) ==
    IF session_id \in DOMAIN d.sessions /\ get_project(d.sessions[session_id].project)
    THEN Some(d.sessions[session_id])
    ELSE None

\* ProjectChatService.get_session_history: the Messages of the session,
\* those flushed in this request included.
get_session_history(d, t, session_id) ==
    IF get_session(d, session_id) = None THEN <<>>
    ELSE LET InSession(m) == m.kind = "project" /\ m.session_id = Some(session_id)
         IN  SelectSeq(d.messages \o t, InSession)

\* ChatService.get_history: the Messages of the document.
get_history(d, t, document_id) ==
    LET OfDocument(m) == m.kind = "doc" /\ m.context = document_id
    IN  SelectSeq(d.messages \o t, OfDocument)

\* The frames of the stream: f"data: {chunk}\n\n" for each chunk of
\* send_message, then data: [DONE], or data: [ERROR] and a text.
DataFrame(chunk) == [frame |-> "data", chunk |-> chunk]
DoneFrame == DataFrame(Fragment("done", <<>>))
ErrorFrame(text) == DataFrame(Fragment("error", <<text>>))

NoKeyText(kind) ==
    IF kind = "doc" THEN "API key not configured"
    ELSE "API key not configured and no active demo access"

ValueError(text) == [type |-> "ValueError", text |-> text]
OtherError == [type |-> "Exception", text |-> ""]

\* An exception leaves send_message: the except clauses of generate().
\* The document route catches ValueError only.  The request's database
\* session is closed without a commit.
Raised(kind, exc) ==
    /\ txn' = <<>>
    /\ IF exc.type = "ValueError"
       THEN /\ tpc' = "failed"
            /\ client' = Append(client, ErrorFrame(exc.text))
       ELSE IF kind = "project"
       THEN /\ tpc' = "failed"
            /\ client' = Append(client, ErrorFrame("Une erreur inattendue s'est produite"))
       ELSE /\ tpc' = "broken"
            /\ client' = client

\* The credential check at the top of send_message.
KeyConfigured(kind, e) ==
    IF kind = "doc" THEN e.own # "none"
    ELSE get_effective_api_key_sync(e) # None

\* Faulty variant of LoopKey: the loop takes the key for granted.
LoopKeyAssumed(kind, e) == TRUE

\* `api_key` at the top of _agentic_loop is obtained: decrypt_api_key of the
\* user's own key in document chat, the effective key in project chat.
LoopKey(kind, e) ==
    IF kind = "doc" THEN e.own = "valid"
    ELSE get_effective_api_key_sync(e) # None

\* session.flush() of the user Message: with foreign keys enforced, a
\* session id of no session is refused.
FlushRefused(r, e) ==
    /\ e.fk
    /\ r.session_id # None
    /\ r.session_id[1] \notin SessionIds

\* The provider as the indexer meets it: no call is made without a key.
ProvidersOf(e) ==
    IF get_effective_api_key_sync(e) = None THEN {"no_key"} ELSE {"ok", "error"}

\* What _embed_texts raises: ValueError from _get_mistral or on a 401,
\* the provider's error otherwise.
EmbedErrors(provider) ==
    IF provider = "no_key" THEN { ValueError(NoKeyText("project")) }
    ELSE { ValueError("Cle API Mistral invalide ou expiree."), OtherError }

UserMessage(r, d, t) ==
    Message(NextId(d, t), r.kind, r.id, r.session_id, "user", <<"question">>, None, Now(d, t))

\* `history` of send_message: the Messages read back, without user_msg.
HistoryOf(r, d, t, user_msg) ==
    LET all == IF r.kind = "doc" THEN get_history(d, t, r.id)
               ELSE IF r.session_id # None THEN get_session_history(d, t, r.session_id[1])
               ELSE <<>>
        NotUserMsg(m) == m.id # user_msg.id
    IN  SelectSeq(all, NotUserMsg)

\* send_message from its top to the `async for` over the loop.
Prepare(r) ==
    LET user_msg == UserMessage(r, db, txn)
        flushed == Append(txn, user_msg)
        Proceed ==
            /\ txn' = flushed
            /\ history' = HistoryOf(r, db, flushed, user_msg)
            /\ tpc' = "streaming"
            /\ client' = client
    IN  IF ~(IF r.kind = "doc" THEN get_document(r.id) ELSE get_project(r.id))
        THEN /\ Raised(r.kind, ValueError("Document not found or access denied"))
             /\ UNCHANGED <<indexVars, tlog, history>>
        ELSE IF ~KeyConfigured(r.kind, env)
        THEN /\ Raised(r.kind, ValueError(NoKeyText(r.kind)))
             /\ UNCHANGED <<indexVars, tlog, history>>
        ELSE IF FlushRefused(r, env)
        THEN /\ Raised(r.kind, OtherError)
             /\ UNCHANGED <<indexVars, tlog, history>>
        ELSE IF r.ids = <<>>
        THEN /\ Proceed
             /\ UNCHANGED <<indexVars, tlog>>
        ELSE \E provider \in ProvidersOf(env) :
                /\ Index(CollectionName(r.kind, r.id), r.ids, provider)
                /\ UNCHANGED ctx
                /\ tlog' = IF lastOp'.embedded # <<>> THEN Append(tlog, "embed") ELSE tlog
                /\ IF lastOp'.outcome = "error"
                   THEN /\ \E exc \in EmbedErrors(provider) : Raised(r.kind, exc)
                        /\ UNCHANGED history
                   ELSE Proceed

\* The request arrives.  The project route looks the project up before it
\* starts the stream and answers 404 when it is not the user's.
BeginTurn ==
    /\ tpc = "idle"
    /\ \E r \in Requests(ctx[1]) :
          /\ req' = Some(r)
          /\ IF r.kind = "project" /\ ~get_project(r.id)
             THEN /\ tpc' = "rejected"
                  /\ UNCHANGED <<indexVars, txn, client, tlog, history>>
             ELSE Prepare(r)
    /\ UNCHANGED <<env, db, title>>

\* One step of the loop pulled through send_message and generate(): the
\* chunks it yields go to the client, what it raises leaves send_message.
Pull(step) ==
    /\ tpc = "streaming"
    /\ step
    /\ IF pc' = "raised"
       THEN Raised(req[1].kind,
                   IF pc = "start" THEN ValueError(IF req[1].kind = "doc" THEN "Invalid encrypted API key"
                                                   ELSE NoKeyText("project"))
                   ELSE OtherError)
       ELSE /\ client' = client \o [k \in 1..(Len(stream') - Len(stream)) |-> DataFrame(stream'[Len(stream) + k])]
            /\ UNCHANGED <<tpc, txn>>
    /\ UNCHANGED <<env, req, db, tlog, history, title, indexVars>>

TurnLoopBegin == Pull(LoopBeginWith(LoopKey(req[1].kind, env)))

\* full_response: the chunks that are not events, joined.  The replies of
\* the model carry no event marker and no outer blank, so the cleaning and
\* strip() keep their texts whole; an empty text adds nothing.
RECURSIVE FullResponse(_)
FullResponse(yielded) ==
    IF yielded = <<>> THEN <<>>
    ELSE IF Head(yielded).kind = "text"
         THEN LET NotEmpty(x) == x # "" IN SelectSeq(Head(yielded).data, NotEmpty) \o FullResponse(Tail(yielded))
         ELSE FullResponse(Tail(yielded))

\* `if x not in seen: seen.append(x)` over a list.
RECURSIVE Accumulate(_, _)
Accumulate(seen, xs) ==
    IF xs = <<>> THEN seen
    ELSE IF \E k \in 1..Len(seen) : seen[k] = Head(xs)
         THEN Accumulate(seen, Tail(xs))
         ELSE Accumulate(Append(seen, Head(xs)), Tail(xs))

\* sources_used and chunks_found after the loop: document chat keeps the
\* payload of the last search_complete event, project chat accumulates the
\* payloads without repeating a source or a chunk.
RECURSIVE Provenance(_, _, _)
Provenance(kind, yielded, acc) ==
    IF yielded = <<>> THEN acc
    ELSE IF Head(yielded).kind = "search_complete"
         THEN Provenance(kind, Tail(yielded),
                IF kind = "doc"
                THEN [sources_used |-> Head(yielded).data[1], chunks_found |-> Head(yielded).data[2]]
                ELSE [sources_used |-> Accumulate(acc.sources_used, Head(yielded).data[1]),
                      chunks_found |-> Accumulate(acc.chunks_found, Head(yielded).data[2])])
         ELSE Provenance(kind, Tail(yielded), acc)

AssistantMetadata(kind, yielded) ==
    LET prov == Provenance(kind, yielded, [sources_used |-> <<>>, chunks_found |-> <<>>])
    IN  IF prov.sources_used # <<>> \/ prov.chunks_found # <<>> THEN Some(prov) ELSE None

AssistantMessage(r, d, t, yielded) ==
    Message(NextId(d, t), r.kind, r.id, r.session_id, "assistant",
            FullResponse(yielded), AssistantMetadata(r.kind, yielded), Now(d, t))

\* Faulty variant of Commit: only the first Message of the request's session
\* reaches the store.
CommitFirstOnly(d, t) == [d EXCEPT !.messages = d.messages \o SubSeq(t, 1, 1)]

\* Faulty variant of Commit: the commit replaces the Messages of the store.
CommitReplacing(d, t) == [d EXCEPT !.messages = t]

\* session.commit(): the Messages of the request's session join the store.
Commit(d, t) == [d EXCEPT !.messages = d.messages \o t]

\* `if session_id and len(history) == 0 and clean_response.strip()`, in
\* project chat only.
TitleWanted(r, hist, content) ==
    /\ r.kind = "project"
    /\ r.session_id # None
    /\ Len(hist) = 0
    /\ content # <<>>

\* The loop has returned: send_message saves the assistant Message and
\* commits, then goes on to the title or returns, and generate() ends the
\* stream.
AfterLoop ==
    /\ tpc = "streaming"
    /\ pc = "done"
    /\ LET r == req[1]
           assistant_msg == AssistantMessage(r, db, txn, stream)
       IN  /\ db' = Commit(db, Append(txn, assistant_msg))
           /\ txn' = <<>>
           /\ tlog' = Append(tlog, "commit")
           /\ IF TitleWanted(r, history, assistant_msg.content)
              THEN /\ tpc' = "title"
                   /\ client' = client
              ELSE /\ tpc' = "returned"
                   /\ client' = Append(client, DoneFrame)
    /\ UNCHANGED <<env, req, history, title, loopVars, indexVars>>

\* What the title call of the provider gives: an error, no content, or a
\* text.
TitleReplies ==
    { [raises |-> TRUE, content |-> <<>>],
      [raises |-> FALSE, content |-> <<>>],
      [raises |-> FALSE, content |-> <<"\"", "\"">>],
      [raises |-> FALSE, content |-> PlaceholderTitle],
      [raises |-> FALSE, content |-> <<" ", "\"", "Cell", " ", "biology", "\"">>] }

\* str.strip(): the characters of `chars` are removed at both ends.
RECURSIVE LStrip(_, _)
LStrip(s, chars) ==
    IF s # <<>> /\ Head(s) \in chars THEN LStrip(Tail(s), chars) ELSE s
StripOf(s, chars) == Reverse(LStrip(Reverse(LStrip(s, chars)), chars))

\* _generate_session_title, for replies of under a hundred characters.
_generate_session_title(api_key, reply) ==
    IF api_key = None THEN PlaceholderTitle
    ELSE IF reply.raises THEN PlaceholderTitle
    ELSE IF reply.content = <<>> THEN PlaceholderTitle
    ELSE StripOf(StripOf(reply.content, {" "}), {"\"", "'"})

\* [DONE] after the last chunk of send_message.
Done ==
    /\ tpc' = "returned"
    /\ client' = Append(client, DoneFrame)

\* `new_title = await self._generate_session_title(...)` and the test on it.
GenerateTitle ==
    /\ tpc = "title"
    /\ LET api_key == get_effective_api_key_sync(env)
       IN  \E reply \in (IF api_key = None THEN {[raises |-> FALSE, content |-> <<>>]} ELSE TitleReplies) :
              LET new_title == _generate_session_title(api_key, reply)
              IN  /\ tlog' = IF api_key = None THEN tlog ELSE Append(tlog, "title_call")
                  /\ IF new_title # <<>> /\ new_title # PlaceholderTitle
                     THEN /\ title' = Some(new_title)
                          /\ tpc' = "title_write"
                          /\ client' = client
                     ELSE /\ title' = title
                          /\ Done
    /\ UNCHANGED <<env, req, db, txn, history, loopVars, indexVars>>

\* _update_session_title: False when get_session finds nothing, else the
\* title and updated_at are set and committed.
_update_session_title(d, session_id, new_title) ==
    IF get_session(d, session_id) = None
    THEN [ok |-> FALSE, db |-> d]
    ELSE [ok |-> TRUE,
          db |-> [d EXCEPT !.sessions[session_id].title = new_title,
                           !.sessions[session_id].updated_at = Now(d, <<>>)]]

TitleEvent(session_id, new_title) == Fragment("title_generated", <<session_id, new_title>>)

\* `await self._update_session_title(session_id, new_title)` and the yield
\* after it; the commit may fail, and the except clause swallows it.
UpdateTitle ==
    /\ tpc = "title_write"
    /\ LET session_id == req[1].session_id[1]
           ret == _update_session_title(db, session_id, title[1])
       IN  \E commit_fails \in (IF ret.ok THEN BOOLEAN ELSE {FALSE}) :
              IF commit_fails
              THEN /\ Done
                   /\ UNCHANGED <<db, tlog>>
              ELSE /\ db' = ret.db
                   /\ tlog' = IF ret.ok THEN Append(tlog, "title_write") ELSE tlog
                   /\ client' = Append(client, DataFrame(TitleEvent(session_id, title[1])))
                   /\ tpc' = "at_title_event"
    /\ UNCHANGED <<env, req, txn, history, title, loopVars, indexVars>>

\* send_message returns after the title event; generate() ends the stream.
FinishTurn ==
    /\ tpc = "at_title_event"
    /\ Done
    /\ UNCHANGED <<env, req, db, txn, tlog, history, title, loopVars, indexVars>>

\* The points where send_message is suspended at a yield.
AtYield ==
    \/ tpc = "streaming" /\ pc \in {"at_search_start", "at_search_complete", "at_answer", "at_interrupted"}
    \/ tpc = "at_title_event"

\* Faulty variant of Cancel: the turn is saved as if it had run to its end.
CancelThenCommit ==
    /\ AtYield
    /\ tpc' = "cancelled"
    /\ db' = Commit(db, txn)
    /\ txn' = <<>>
    /\ tlog' = Append(tlog, "commit")
    /\ UNCHANGED <<env, req, client, history, title, loopVars, indexVars>>

\* The caller stops consuming: the generators are closed where they are
\* suspended, and the request's database session is closed without a
\* commit.
Cancel ==
    /\ AtYield
    /\ tpc' = "cancelled"
    /\ txn' = <<>>
    /\ UNCHANGED <<env, req, db, client, tlog, history, title, loopVars, indexVars>>

(***************************************************************************)
(* Requests served at the same time on one database.  Every request has    *)
(* its own AsyncSession (db/session.py, get_session) and its own service   *)
(* (routes/chat.py, routes/project_chat.py); the requests share the        *)
(* committed rows.  A turn is followed from the flush of its user Message  *)
(* to its commit and to the rewrite of the title; what its loop does in    *)
(* between is the section above, and here only the text it leaves.         *)
(*                                                                         *)
(* settings.database_url names SQLite (the default) or PostgreSQL.  Under  *)
(* PostgreSQL a request reads the committed rows and its own; a row        *)
(* inserted by a request that has not committed keeps its session from     *)
(* being deleted until the commit.  Under SQLite a request that has        *)
(* written holds the database until it commits, and another writer waits.  *)
(***************************************************************************)
Slots == {1, 2}
Engines == {"postgresql", "sqlite"}

NoTurn == [pc |-> "idle", req |-> None, txn |-> <<>>, history |-> <<>>]
NoStoreOp == [op |-> "none", arg |-> 0, ret |-> TRUE]

StoreInit ==
    /\ engine \in Engines
    /\ turns = [i \in Slots |-> NoTurn]
    /\ storeOp = NoStoreOp
    /\ titleWrites = <<>>

\* Another request holds the database (SQLite).
WriteLocked(i) ==
    /\ engine = "sqlite"
    /\ \E j \in Slots \ {i} : turns[j].txn # <<>>

\* The primary key of a new row: above every key given so far.
FreshId ==
    LET used == { db.messages[k].id : k \in 1..Len(db.messages) }
                \cup UNION { { turns[j].txn[k].id : k \in 1..Len(turns[j].txn) } : j \in Slots }
    IN  1 + CHOOSE m \in used \cup {0} : \A x \in used : x <= m

\* What the loop of a turn leaves in full_response: nothing, or a text.
TurnYields == { <<>>, <<Fragment("text", <<"answer">>)>> }

\* send_message of request i, from its top to the loop: the target is the
\* user's, the user Message is flushed, and the history is read.
StartTurn(i) ==
    /\ turns[i].pc = "idle"
    /\ ~WriteLocked(i)
    /\ \E kind \in {"doc", "project"} : \E r \in Requests(kind) :
          /\ r.ids = <<>>
          /\ IF kind = "doc" THEN get_document(r.id) ELSE get_project(r.id)
          /\ IF r.session_id = None THEN TRUE ELSE r.session_id[1] \in DOMAIN db.sessions
          /\ LET user_msg == [UserMessage(r, db, <<>>) EXCEPT !.id = FreshId]
                 flushed == <<user_msg>>
             IN  turns' = [turns EXCEPT ![i] =
                              [pc |-> "streaming", req |-> Some(r), txn |-> flushed,
                               history |-> HistoryOf(r, db, flushed, user_msg)]]
    /\ storeOp' = NoStoreOp
    /\ UNCHANGED <<engine, titleWrites, db>>

\* send_message of request i after its loop: the assistant Message is
\* saved with the user Message, and the title is wanted or not.
SaveTurn(i) ==
    /\ turns[i].pc = "streaming"
    /\ \E yielded \in TurnYields :
          LET r == turns[i].req[1]
              assistant_msg == [AssistantMessage(r, db, turns[i].txn, yielded) EXCEPT !.id = FreshId]
          IN  /\ db' = Commit(db, Append(turns[i].txn, assistant_msg))
              /\ turns' = [turns EXCEPT ![i].txn = <<>>,
                                        ![i].pc = IF TitleWanted(r, turns[i].history, assistant_msg.content)
                                                  THEN "title" ELSE "returned"]
    /\ storeOp' = NoStoreOp
    /\ UNCHANGED <<engine, titleWrites>>

\* The title of request i: _generate_session_title, then
\* _update_session_title when the title is usable; its commit may fail.
TitleStep(i) ==
    /\ turns[i].pc = "title"
    /\ ~WriteLocked(i)
    /\ \E reply \in TitleReplies : \E commit_fails \in BOOLEAN :
          LET session_id == turns[i].req[1].session_id[1]
              new_title == _generate_session_title(get_effective_api_key_sync(env), reply)
              ret == _update_session_title(db, session_id, new_title)
          IN  IF new_title # <<>> /\ new_title # PlaceholderTitle /\ ret.ok /\ ~commit_fails
              THEN /\ db' = ret.db
                   /\ titleWrites' = Append(titleWrites,
                         [session |-> session_id, slot |-> i, history |-> turns[i].history])
              ELSE UNCHANGED <<db, titleWrites>>
    /\ turns' = [turns EXCEPT ![i].pc = "returned"]
    /\ storeOp' = NoStoreOp
    /\ UNCHANGED engine

\* ChatService.clear_history: every ChatMessage of the document is deleted.
clear_history ==
    /\ ~WriteLocked(0)
    /\ \E document_id \in {1, 2} :
          LET Kept(m) == ~(m.kind = "doc" /\ m.context = document_id)
          IN  /\ db' = [db EXCEPT !.messages = SelectSeq(db.messages, Kept)]
              /\ storeOp' = [op |-> "clear_history", arg |-> document_id, ret |-> TRUE]
    /\ UNCHANGED <<engine, turns, titleWrites>>

\* ProjectChatService.delete_session: False when get_session finds nothing;
\* else the session is deleted and, by the cascade of
\* ProjectChatSession.messages, every Message that carries its id.
delete_session ==
    /\ ~WriteLocked(0)
    /\ \E session_id \in SessionIds \cup {4} :
          /\ \A j \in Slots : IF turns[j].txn = <<>> THEN TRUE
                               ELSE turns[j].req[1].session_id # Some(session_id)
          /\ IF get_session(db, session_id) = None
             THEN /\ db' = db
                  /\ storeOp' = [op |-> "delete_session", arg |-> session_id, ret |-> FALSE]
             ELSE LET Kept(m) == ~(m.kind = "project" /\ m.session_id = Some(session_id))
                  IN  /\ db' = [messages |-> SelectSeq(db.messages, Kept),
                                sessions |-> [s \in DOMAIN db.sessions \ {session_id} |-> db.sessions[s]]]
                      /\ storeOp' = [op |-> "delete_session", arg |-> session_id, ret |-> TRUE]
    /\ UNCHANGED <<engine, turns, titleWrites>>

(***************************************************************************)
(* The EmbeddingServices of one process.  get_chat_service and             *)
(* get_project_chat_service make a chat service for every request, and     *)
(* _get_embedding_service makes its EmbeddingService, whose __init__ makes *)
(* a chromadb.Client() and an empty _collections: a turn never meets the   *)
(* EmbeddingService of another turn.  The turns followed here work on one  *)
(* context, each from its call of index_sources to a search; the indexer   *)
(* is cut at its one await, that of _embed_texts.                          *)
(*                                                                         *)
(* Whether two chromadb.Client() objects of a process hold the same        *)
(* collections depends on the chromadb installed: `shared` is either.      *)
(* A Collection object addresses its collection by id: once the            *)
(* collection is deleted, add and get on the object raise.                 *)
(***************************************************************************)
NoService ==
    [pc |-> "idle", ids |-> <<>>, recorded |-> None, known |-> FALSE,
     overlapped |-> FALSE, embedded |-> <<>>, read |-> "none"]

ProcInit ==
    /\ shared \in BOOLEAN
    /\ svcs = [i \in Slots |-> NoService]
    /\ stores = [c \in {0} \cup Slots |-> None]

\* The store behind self._client of request i.
StoreOf(i) == IF shared THEN 0 ELSE i

\* The Collection object of request i reads its collection.
Live(i, object) ==
    /\ stores[StoreOf(i)] # None
    /\ stores[StoreOf(i)][1].uid = object.uid

\* index_sources / index_project_sources of request i up to the await of
\* _embed_texts: the check on self._collections, delete_collection,
\* create_collection, the chunks; with no chunk the empty collection is
\* recorded and the call returns.  `known`: another request of the process
\* has indexed the context with the same fingerprint before;  `overlapped`:
\* another request on the same store is at its await.
IndexBegin(i) ==
    /\ svcs[i].pc = "idle"
    /\ \E ids \in SourceLists :
          LET source_hash == SourceHash(ids)
              items == AllItems(ids)
              object == [uid |-> i, source_hash |-> source_hash]
              known == \E j \in Slots \ {i} :
                          /\ svcs[j].pc \in {"indexed", "searched"}
                          /\ svcs[j].recorded = Some([uid |-> j, source_hash |-> source_hash])
              overlapped == \E j \in Slots \ {i} :
                          svcs[j].pc = "embedding" /\ StoreOf(j) = StoreOf(i)
          IN  IF svcs[i].recorded # None /\ svcs[i].recorded[1].source_hash = source_hash
              THEN /\ svcs' = [svcs EXCEPT ![i].pc = "indexed", ![i].ids = ids, ![i].known = known]
                   /\ stores' = stores
              ELSE /\ stores' = [stores EXCEPT ![StoreOf(i)] =
                                    Some([uid |-> i, source_hash |-> source_hash, items |-> <<>>])]
                   /\ svcs' = [svcs EXCEPT ![i] =
                                 [NoService EXCEPT
                                    !.pc = IF items = <<>> THEN "indexed" ELSE "embedding",
                                    !.ids = ids,
                                    !.recorded = IF items = <<>> THEN Some(object) ELSE None,
                                    !.known = known,
                                    !.overlapped = overlapped]]
    /\ UNCHANGED shared

\* index_sources of request i from the await of _embed_texts on: the
\* provider answers or not, collection.add, the Collection is recorded.
IndexEnd(i) ==
    /\ svcs[i].pc = "embedding"
    /\ \E provider \in Providers :
          LET items == AllItems(svcs[i].ids)
              object == [uid |-> i, source_hash |-> SourceHash(svcs[i].ids)]
              called == IF provider = "no_key" THEN <<>> ELSE <<Documents(items)>>
          IN  IF provider = "ok" /\ Live(i, object)
              THEN /\ stores' = [stores EXCEPT ![StoreOf(i)] =
                                    Some([uid |-> i, source_hash |-> object.source_hash, items |-> items])]
                   /\ svcs' = [svcs EXCEPT ![i].pc = "indexed", ![i].recorded = Some(object),
                                           ![i].embedded = called]
              ELSE /\ stores' = stores
                   /\ svcs' = [svcs EXCEPT ![i].pc = "failed", ![i].embedded = called]
    /\ UNCHANGED shared

\* A search of request i after its indexing: collection.get on the
\* Collection it recorded.
SearchStep(i) ==
    /\ svcs[i].pc = "indexed"
    /\ svcs' = [svcs EXCEPT ![i].pc = "searched",
                            ![i].read = IF Live(i, svcs[i].recorded[1]) THEN "ok" ELSE "discarded"]
    /\ UNCHANGED <<shared, stores>>

(***************************************************************************)
(* Properties of the agentic loop.                                         *)
(***************************************************************************)
Last(xs) == xs[Len(xs)]
IsAnswerText(f) == f.kind = "text" /\ f # InterruptedFragment

\* C1: one invocation of the agentic loop makes at most 3 model calls; when
\* the model requested tools in each of 3 replies there is no 4th call, and
\* once the tool calls of the 3rd reply are done the last fragment yielded is
\* the interruption message, with no answer text anywhere in the stream.
C1_LoopBound ==
    /\ modelCalls <= 3
    /\ Len(replyLog) = modelCalls
    /\ (replyLog = <<"tool_calls", "tool_calls", "tool_calls">> =>
          /\ pc # "model"
          /\ (pc \in {"at_interrupted", "done"} =>
                /\ stream # <<>>
                /\ Last(stream) = InterruptedFragment
                /\ \A k \in 1..Len(stream) : ~IsAnswerText(stream[k])))

C1_Witness ==
    /\ pc = "done"
    /\ replyLog = <<"tool_calls", "tool_calls", "tool_calls">>
    /\ modelCalls = 3
    /\ Last(stream) = InterruptedFragment
    /\ \E k \in 1..Len(stream) : stream[k].kind = "search_complete"

\* The positions of the fragments of a kind in the stream, and the rank of
\* a position among them.
FragmentsOf(kind) == { k \in 1..Len(stream) : stream[k].kind = kind }
RankIn(set, k) == Cardinality({ j \in set : j <= k })

\* C11: every search the loop executes puts one search_start event with
\* the query on the stream and then one search_complete event, next to each
\* other and before any answer text; the search_complete event is there
\* whatever the Retriever did (results, no result, exception).
C11_SearchEvents ==
    LET starts == FragmentsOf("search_start")
        completes == FragmentsOf("search_complete")
    IN  /\ Cardinality(completes) = Len(searchLog)
        /\ \A k \in starts :
              IF RankIn(starts, k) <= Len(searchLog)
              THEN /\ stream[k].data = << searchLog[RankIn(starts, k)].query >>
                   /\ k < Len(stream)
                   /\ stream[k + 1].kind = "search_complete"
              ELSE /\ k = Len(stream)
                   /\ pc = "at_search_start"
                   /\ stream[k].data = << Head(pending).query >>
        /\ \A k \in completes : k > 1 /\ stream[k - 1].kind = "search_start"
        /\ \A k \in FragmentsOf("text") : k = Len(stream)

C11_Witness ==
    /\ pc = "done"
    /\ Len(searchLog) = 2
    /\ searchLog[1].outcome = "raises"
    /\ searchLog[2].outcome = "empty"
    /\ Cardinality(FragmentsOf("search_complete")) = 2
    /\ IsAnswerText(Last(stream))

\* C12: an exception of the Retriever never ends the turn: the search
\* returns the fixed search-failed text, the tool result with that text is
\* appended to the message list, and the loop goes on: to the next tool
\* call of the reply, else to the next model call when fewer than 3 model
\* calls were made, else to the interruption message.
C12_SearchFailureContinues ==
    [][ /\ (/\ pc = "at_search_start"
             /\ searchLog' # searchLog
             /\ Last(searchLog').outcome = "raises")
            => /\ pc' = "at_search_complete"
               /\ found' = Some([results |-> SearchFailedText, sources |-> <<>>, chunks |-> <<>>])
        /\ (/\ pc = "at_search_complete"
             /\ pc' # pc
             /\ Last(searchLog).outcome = "raises")
            => /\ Len(messages') = Len(messages) + 2
               /\ Last(messages') = [role |-> "tool", tool_call_id |-> Head(pending).id,
                                     content |-> SearchFailedText]
               /\ \/ pc' = "at_search_start"
                  \/ modelCalls < 3 /\ pc' = "model"
                  \/ modelCalls = 3 /\ pc' = "at_interrupted" ]_vars

C12_Witness ==
    /\ pc = "at_answer"
    /\ replyLog = <<"tool_calls", "content">>
    /\ Len(searchLog) = 1
    /\ searchLog[1].outcome = "raises"
    /\ \E k \in 1..Len(messages) :
          messages[k].role = "tool" /\ messages[k].content = SearchFailedText

\* C13: when a model call raises, the loop ends at once: the generator
\* returns, the failed call is the last model call, and from then on no
\* fragment is yielded and no model or Retriever call is made.
C13_ModelFailureEndsLoop ==
    [][ (\E i \in 1..Len(replyLog') : replyLog'[i] = "raised")
        => /\ Last(replyLog') = "raised"
           /\ pc' = "done"
           /\ stream' = stream
           /\ searchLog' = searchLog
           /\ messages' = messages
           /\ modelCalls' = Len(replyLog')
           /\ Len(replyLog') <= Len(replyLog) + 1 ]_vars

C13_Witness ==
    /\ pc = "done"
    /\ replyLog = <<"tool_calls", "raised">>
    /\ modelCalls = 2
    /\ stream # <<>>
    /\ Last(stream).kind = "search_complete"

\* The messages appended by the loop, two by two.
PairCount == (Len(messages) - Len(InitialMessages)) \div 2
PairCall(j) == messages[Len(InitialMessages) + 2 * j - 1]
PairResult(j) == messages[Len(InitialMessages) + 2 * j]

\* C23: the message list is the messages it had before the loop followed
\* by pairs: an assistant tool-call message and, right after it, the tool
\* message with the same tool_call_id; the pairs come in the order in which
\* the model issued the calls (ids are the positions of the calls).
C23_ToolPairs ==
    /\ Len(messages) = Len(InitialMessages) + 2 * PairCount
    /\ SubSeq(messages, 1, Len(InitialMessages)) = InitialMessages
    /\ \A j \in 1..PairCount :
          /\ PairCall(j).role = "assistant"
          /\ PairResult(j).role = "tool"
          /\ PairResult(j).tool_call_id = PairCall(j).tool_call_id
    /\ \A i, j \in 1..PairCount : i < j => PairCall(i).tool_call_id < PairCall(j).tool_call_id

\* Two searches of one reply and a search of the next reply are in the list.
C23_Witness ==
    /\ PairCount = 3
    /\ modelCalls = 2
    /\ PairCall(2).tool_call_id \in {2, 3}

(***************************************************************************)
(* Properties of the chunker.                                              *)
(***************************************************************************)
BodyWords == Split(body)
\* ceil(a / b) for b > 0
CeilDiv(a, b) == (a + b - 1) \div b

\* C5 (as claimed): for N > W words the chunker returns exactly
\* ceil((N - O) / (W - O)) chunks, each non-empty.
C5_ChunkCount ==
    chunkCall # None =>
        LET W == chunkCall[1].chunk_size
            O == chunkCall[1].overlap
            N == Len(BodyWords)
        IN  N > W =>
              /\ Len(chunks) = CeilDiv(N - O, W - O)
              /\ \A k \in 1..Len(chunks) : chunks[k] # <<>>

\* C6: a text of at most W words is returned as one chunk, the body itself;
\* otherwise chunk k+1 starts exactly W - O words after chunk k (chunk 1 at
\* the first word), each chunk holds at most W consecutive words of the
\* text, and the last chunk ends at the final word.
C6_ChunkWindows ==
    chunkCall # None =>
        LET W == chunkCall[1].chunk_size
            O == chunkCall[1].overlap
            N == Len(BodyWords)
        IN  IF N <= W
            THEN chunks = <<body>>
            ELSE /\ chunks # <<>>
                 /\ \A k \in 1..Len(chunks) :
                       LET first == (k - 1) * (W - O)
                           words == Split(chunks[k])
                       IN  /\ first < N
                           /\ Len(words) <= W
                           /\ Len(words) = Min(W, N - first)
                           /\ words = SubSeq(BodyWords, first + 1, first + Len(words))
                 /\ LET first == (Len(chunks) - 1) * (W - O)
                    IN  first + Len(Split(Last(chunks))) = N

C6_Witness ==
    /\ chunkCall # None
    /\ chunkCall[1].overlap > 0
    /\ Len(BodyWords) > chunkCall[1].chunk_size
    /\ Len(chunks) >= 3
    /\ Len(Split(chunks[1])) = chunkCall[1].chunk_size

\* C25: a call of _chunk_text that has entered its while loop returns.
C25_ChunkerTerminates == (chunkRun.pc = "loop") ~> (chunkRun.pc = "returned")

(***************************************************************************)
(* Properties of clean_response.                                           *)
(***************************************************************************)
\* C9 (as claimed): clean_response removes every event frame
\* [EVENT:<name>:<json-payload>] and leaves the other text unchanged, also
\* when the payload holds nested square brackets.
C9_EventStripping ==
    cleaned # None => cleaned[1] = plain

(***************************************************************************)
(* Properties of the fingerprint.                                          *)
(***************************************************************************)
\* C8: the fingerprint depends only on the set of source ids: two lists of
\* the same ids in any order have the same fingerprint, and two lists whose
\* id sets differ (an id added or removed) have different fingerprints.
C8_FingerprintOfSet ==
    digests # None =>
        (IdSet(listA) = IdSet(listB) <=> digests[1][1] = digests[1][2])

C8_Witness ==
    /\ digests # None
    /\ listA = <<1, 2, 3>>
    /\ listB = <<3, 2, 1>>
    /\ digests[1][1] = digests[1][2]

(***************************************************************************)
(* Properties of the indexer and the retriever.                            *)
(***************************************************************************)
Range(xs) == { xs[k] : k \in 1..Len(xs) }

\* The Collection that search reads for the name is the index of the source
\* set `ids`: it is there and tagged with the fingerprint of the set.
IndexedWith(name, ids) ==
    /\ ReadCollection(name) # None
    /\ ReadCollection(name)[1].source_hash = SourceHash(ids)

\* C2 (as claimed): an index call that returns normally for a source set
\* with at least one chunk makes no provider call and leaves the Collection
\* unchanged when the Collection is already the index of that set of ids;
\* otherwise it calls the provider exactly once, with the chunks of every
\* source of the set, and the Collection is then the index of that set, so
\* that two calls in succession with an unchanged set make one provider
\* call in total.
C2_Idempotence ==
    [][ (/\ lastOp'.op = "index"
         /\ lastOp'.outcome = "ok"
         /\ AllItems(lastOp'.ids) # <<>>)
        => /\ IF IndexedWith(lastOp'.name, lastOp'.ids)
              THEN /\ lastOp'.embedded = <<>>
                   /\ UNCHANGED <<collections, chroma>>
              ELSE lastOp'.embedded = << Documents(AllItems(lastOp'.ids)) >>
           /\ collections'[lastOp'.name] # None
           /\ chroma'[lastOp'.name] # None
           /\ chroma'[lastOp'.name][1].uid = collections'[lastOp'.name][1].uid
           /\ chroma'[lastOp'.name][1].source_hash = SourceHash(lastOp'.ids) ]_vars

\* C10 (as claimed): whenever an index call has returned normally, the
\* Collection that search reads for that context is tagged with the
\* fingerprint of the call's sources and holds exactly the chunks of those
\* sources, whatever index calls came before, failed ones included.
C10_IndexedCollection ==
    (lastOp.op = "index" /\ lastOp.outcome = "ok") =>
        /\ IndexedWith(lastOp.name, lastOp.ids)
        /\ Range(ReadCollection(lastOp.name)[1].items) = Range(AllItems(lastOp.ids))

\* A body without any word: empty or whitespace only.
IsBlank(s) == Split(s) = <<>>
BlankSource(id) ==
    LET content == ContentOf(SourceRow(id))
    IN  content = None \/ IsBlank(content[1])

\* C7 (as claimed): for an empty or whitespace-only body the chunker yields
\* zero chunks, and an index call over a set that holds such a source
\* returns normally when the provider answers, with no chunk stored for
\* that source and the chunks of the other sources stored.
C7_BlankBody ==
    /\ (chunkCall # None /\ IsBlank(body)) => chunks = <<>>
    /\ (lastOp.op = "index" /\ lastOp.outcome = "ok" /\ IndexedWith(lastOp.name, lastOp.ids)) =>
          \A id \in IdSet(lastOp.ids) :
              LET stored == { it \in Range(ReadCollection(lastOp.name)[1].items) :
                                it.metadata.source_id = id }
              IN  IF BlankSource(id) THEN stored = {} ELSE stored # {}

C4_SimilarityFloor ==
    (lastOp.op = "search" /\ lastOp.outcome = "ok" /\ lastOp.embedded # <<>>) =>
        LET near == lastOp.nearest
            kept == { r \in 1..Len(near) : 1000 - near[r].distance >= 500 }
            rank(r) == Cardinality({ q \in kept : q <= r })
        IN  /\ Len(near) <= lastOp.top_k
            /\ Len(lastOp.results) = Cardinality(kept)
            /\ \A k \in 1..Len(lastOp.results) : lastOp.results[k].score >= 500
            /\ \A r \in kept :
                  /\ lastOp.results[rank(r)].score = 1000 - near[r].distance
                  /\ lastOp.results[rank(r)].source_id = near[r].id[1]

C4_Witness ==
    /\ lastOp.op = "search"
    /\ lastOp.outcome = "ok"
    /\ lastOp.embedded # <<>>
    /\ \E r \in 1..Len(lastOp.nearest) : lastOp.nearest[r].distance = 500
    /\ \E r \in 1..Len(lastOp.nearest) : lastOp.nearest[r].distance = 501
    /\ Len(lastOp.results) = 1
    /\ lastOp.results[1].score = 500

\* C24: a search on a context with no recorded Collection returns an
\* empty list, raises nothing and makes no embedding call, and the tool
\* result the loop then gives the model is the fixed no-results text.
C24_SearchWithoutCollection ==
    (lastOp.op = "search" /\ collections[lastOp.name] = None) =>
        /\ lastOp.outcome = "ok"
        /\ lastOp.results = <<>>
        /\ lastOp.embedded = <<>>
        /\ SearchSources(RetrieverOutcome(lastOp)) =
              Some([results |-> NoResultsText, sources |-> <<>>, chunks |-> <<>>])
\* Such a search has run while the store holds a collection of the context
\* that an interrupted indexing left unrecorded.
C24_Witness ==
    /\ lastOp.op = "search"
    /\ collections[lastOp.name] = None
    /\ chroma[lastOp.name] # None

(***************************************************************************)
(* Properties of a chat request.                                           *)
(***************************************************************************)
FramesOf(kind) == { k \in 1..Len(client) : client[k].chunk.kind = kind }
Ended == tpc \in {"returned", "failed", "broken"}

\* An embedding call of the indexer was made and failed.
IndexingFailed == lastOp.op = "index" /\ lastOp.outcome = "error" /\ lastOp.embedded # <<>>
\* A completion call of the loop failed.
CompletionFailed == \E k \in 1..Len(replyLog) : replyLog[k] = "raised"

\* C14: when an embedding call or a completion call has failed during a
\* turn, the stream the client got for that turn carries an error message
\* when it has ended; it has not ended as a successful turn with no error.
C14_FailureIsReported ==
    (Ended /\ (IndexingFailed \/ CompletionFailed)) => FramesOf("error") # {}

\* C15: no step of a chat request changes or removes a Message committed
\* before it, whatever the outcome of the turn: the committed Messages of a
\* state are a prefix of those of the next, field for field.
C15_PriorMessagesKept ==
    [][ /\ Len(db'.messages) >= Len(db.messages)
        /\ \A k \in 1..Len(db.messages) : db'.messages[k] = db.messages[k] ]_vars

\* A turn has been committed on top of the earlier turns of the store.
C15_Witness ==
    /\ tpc = "returned"
    /\ Len(db.messages) = Len(UsedStore.messages) + 2
    /\ SubSeq(db.messages, 1, Len(UsedStore.messages)) = UsedStore.messages

\* C16: a request of a user with no usable credential, once send_message
\* is called on a document or project of the user, ends with a
\* configuration error and nothing else: no Message is committed, no
\* embedding, model, Retriever or title call is made, and the only frame
\* the client gets is the error, once.
ConfigurationErrors ==
    { ErrorFrame(NoKeyText("doc")), ErrorFrame(NoKeyText("project")),
      ErrorFrame("Invalid encrypted API key") }
C16_NoCredential ==
    (/\ req # None
     /\ tpc # "rejected"
     /\ get_effective_api_key_sync(env) = None
     /\ (IF req[1].kind = "doc" THEN get_document(req[1].id) ELSE get_project(req[1].id)))
    => /\ db \in {EmptyStore, UsedStore}
       /\ tlog = <<>> /\ modelCalls = 0 /\ searchLog = <<>>
       /\ \/ tpc = "failed" /\ Len(client) = 1 /\ client[1] \in ConfigurationErrors
          \/ tpc = "streaming" /\ pc = "start" /\ client = <<>>

\* A user whose own key cannot be decrypted and who has no demo access has
\* asked about a document with no source, and the request has failed.
C16_Witness ==
    /\ req # None /\ req[1].kind = "doc" /\ req[1].id = 1 /\ req[1].ids = <<>>
    /\ env.own = "corrupt" /\ ~env.demo
    /\ tpc = "failed"

\* C17: the step in which the caller stops consuming, and every step after
\* it, makes no model call, no Retriever call, no embedding or title call
\* and no commit, and sends nothing to the client.
C17_CancelStopsTheTurn ==
    [][ tpc' = "cancelled" =>
          /\ modelCalls' = modelCalls /\ searchLog' = searchLog /\ tlog' = tlog
          /\ db' = db /\ client' = client ]_vars

\* The caller has stopped at the search_start event: the search it
\* announces has not run and nothing is committed.
C17_Witness ==
    /\ tpc = "cancelled"
    /\ pc = "at_search_start"
    /\ searchLog = <<>>
    /\ db \in {EmptyStore, UsedStore}

\* The title call was made and the Session's title was not rewritten: the
\* call failed, gave nothing usable, or the write failed.
TitleFailed ==
    /\ tpc \in {"at_title_event", "returned"}
    /\ \E k \in 1..Len(tlog) : tlog[k] = "title_call"
    /\ \A k \in 1..Len(tlog) : tlog[k] # "title_write"

\* C18: after a failed title generation the answer is untouched: the
\* frames of the answer are those of the loop, the assistant Message is
\* committed with the answer, every Session has the title it had before the
\* turn, no title_generated event is on the stream, and the request has
\* not failed.
C18_TitleFailureIsSilent ==
    TitleFailed =>
        /\ db.sessions \in {EmptyStore.sessions, UsedStore.sessions}
        /\ Last(db.messages).role = "assistant"
        /\ Last(db.messages).content = FullResponse(stream)
        /\ \A k \in 1..Len(stream) : client[k] = DataFrame(stream[k])
        /\ FramesOf("error") = {}
        /\ FramesOf("title_generated") = {}

\* C19: every title_generated event on the stream names a Session whose
\* stored title is the title of the event, and once a title is written the
\* stream carries the event for it.
C19_TitleEventMeansWritten ==
    /\ \A k \in FramesOf("title_generated") :
          LET session_id == client[k].chunk.data[1]
              new_title == client[k].chunk.data[2]
          IN  /\ session_id \in SessionIds
              /\ db.sessions[session_id].title = new_title
    /\ (\E k \in 1..Len(tlog) : tlog[k] = "title_write") => FramesOf("title_generated") # {}

\* C20: every committed Message with a session id refers to a Session that
\* exists and belongs to the project of the Message.
C20_MessageSessionContext ==
    \A k \in 1..Len(db.messages) :
        LET msg == db.messages[k]
        IN  msg.session_id # None =>
                /\ msg.session_id[1] \in SessionIds
                /\ db.sessions[msg.session_id[1]].project = msg.context

\* The chunks of the search_complete events the loop of the turn yielded.
ChunksOfTurn ==
    UNION { Range(stream[k].data[2]) : k \in { j \in 1..Len(stream) : stream[j].kind = "search_complete" } }
\* The turn has saved its assistant Message: the last committed Message.
TurnCommitted == \E k \in 1..Len(tlog) : tlog[k] = "commit"
SavedChunks ==
    LET msg == Last(db.messages)
    IN  IF msg.metadata = None THEN <<>> ELSE msg.metadata[1].chunks_found

\* C22: the provenance saved with the assistant Message of a turn holds
\* every chunk of every search_complete event of the turn, each once: a
\* chunk found by an earlier tool call is not dropped by a later one.
C22_ProvenanceAccumulates ==
    TurnCommitted =>
        /\ ChunksOfTurn \subseteq Range(SavedChunks)
        /\ \A i, j \in 1..Len(SavedChunks) : SavedChunks[i] = SavedChunks[j] => i = j

\* The document or project of the request is one of the user's.
TargetFound ==
    /\ req # None
    /\ IF req[1].kind = "doc" THEN get_document(req[1].id) ELSE get_project(req[1].id)

\* C29: a turn, of document chat or of project chat, is refused with a
\* configuration error only when the resolution own key, else demo key,
\* else none, yields none.
C29_RefusedOnlyWithoutKey ==
    (TargetFound /\ \E k \in 1..Len(client) : client[k] \in ConfigurationErrors)
        => get_effective_api_key_sync(env) = None

\* The Messages of a store go two by two: a user Message, then the
\* assistant Message of the same context and session.
Paired(msgs) ==
    /\ Len(msgs) % 2 = 0
    /\ \A k \in 1..Len(msgs) : k % 2 = 1 =>
          /\ msgs[k].role = "user" /\ msgs[k + 1].role = "assistant"
          /\ msgs[k + 1].kind = msgs[k].kind
          /\ msgs[k + 1].context = msgs[k].context
          /\ msgs[k + 1].session_id = msgs[k].session_id
\* The store holds the Messages it had before the request, and no other.
NothingSaved == db.messages \in {EmptyStore.messages, UsedStore.messages}
\* The store holds the two Messages of the request after those it had.
TurnSaved ==
    LET n == Len(db.messages)
    IN  /\ n >= 2
        /\ SubSeq(db.messages, 1, n - 2) \in {EmptyStore.messages, UsedStore.messages}
        /\ db.messages[n - 1].role = "user" /\ db.messages[n - 1].context = req[1].id
        /\ db.messages[n].role = "assistant" /\ db.messages[n].context = req[1].id

\* The statement of C30 as it stands: a turn is saved as a pair of Messages
\* or not at all; a turn that ended before its stream was consumed to the
\* end (a failure, a cancellation) saved neither; a turn consumed to the end
\* saved both.
C30_CancelledSavesNothing ==
    /\ Paired(db.messages)
    /\ tpc \in {"rejected", "failed", "broken", "cancelled"} => NothingSaved
    /\ tpc = "returned" => TurnSaved

\* C30: a turn is saved as a pair of Messages or not at all; a turn that
\* failed, or that was cancelled before the title event reached the client,
\* saved neither; a turn consumed to the end, or cancelled at the title
\* event, saved both, also when the assistant content is empty.
C30_WholeTurn ==
    /\ Paired(db.messages)
    /\ tpc \in {"rejected", "failed", "broken"} => NothingSaved
    /\ (tpc = "cancelled" /\ FramesOf("title_generated") = {}) => NothingSaved
    /\ (tpc = "cancelled" /\ FramesOf("title_generated") # {}) => TurnSaved
    /\ tpc = "returned" => TurnSaved
\* A turn whose completion call failed has been consumed to the end and
\* saved with an empty assistant content, after earlier turns.
C30_Witness ==
    /\ tpc = "returned" /\ CompletionFailed
    /\ Len(db.messages) = Len(UsedStore.messages) + 2
    /\ Last(db.messages).content = <<>>
\* A turn has been cancelled at the title event.
C30_WitnessCancelled == tpc = "cancelled" /\ FramesOf("title_generated") # {} /\ TurnSaved

(***************************************************************************)
(* Properties of the requests on one database.                             *)
(***************************************************************************)
\* The call of clear_history or delete_session a step makes, as it is read
\* in the state after the step.
Cleared(document_id, before, after) ==
    LET OfDocument(m) == m.kind = "doc" /\ m.context = document_id
        NotOfDocument(m) == ~OfDocument(m)
    IN  /\ SelectSeq(after.messages, OfDocument) = <<>>
        /\ SelectSeq(after.messages, NotOfDocument) = SelectSeq(before.messages, NotOfDocument)
        /\ after.sessions = before.sessions
\* The Session and the Messages that carry its id are gone; the Messages of
\* other contexts, of other sessions of its project and of its project with
\* no session are as before, and so are the other Sessions.
SessionDeleted(session_id, before, after) ==
    LET project == before.sessions[session_id].project
        OfSession(m) == m.kind = "project" /\ m.session_id = Some(session_id)
        Elsewhere(m) == \/ m.kind # "project"
                        \/ m.context # project
                        \/ m.session_id # Some(session_id)
    IN  /\ session_id \notin DOMAIN after.sessions
        /\ \A s \in DOMAIN before.sessions \ {session_id} :
              s \in DOMAIN after.sessions /\ after.sessions[s] = before.sessions[s]
        /\ SelectSeq(after.messages, OfSession) = <<>>
        /\ SelectSeq(after.messages, Elsewhere) = SelectSeq(before.messages, Elsewhere)

\* C21: clear_history deletes the Messages of its document and nothing
\* else; delete_session deletes its Session and the Messages of it and
\* nothing else, Messages of other contexts included; on a Session that does
\* not exist or is not the user's it returns false and changes nothing.
C21_DeletionFrames ==
    [][ /\ storeOp'.op = "clear_history" => Cleared(storeOp'.arg, db, db')
        /\ (storeOp'.op = "delete_session" /\ storeOp'.ret) =>
              /\ get_session(db, storeOp'.arg) # None
              /\ SessionDeleted(storeOp'.arg, db, db')
        /\ (storeOp'.op = "delete_session" /\ ~storeOp'.ret) =>
              /\ get_session(db, storeOp'.arg) = None
              /\ db' = db ]_vars

\* C28: the title of a Session is rewritten at most once, and only by a
\* turn that read an empty history, whatever the order in which the turns
\* on the Session run.
C28_TitleOnce ==
    /\ \A j, k \in 1..Len(titleWrites) :
          titleWrites[j].session = titleWrites[k].session => j = k
    /\ \A k \in 1..Len(titleWrites) : titleWrites[k].history = <<>>

(***************************************************************************)
(* Properties of the EmbeddingServices of one process.                     *)
(***************************************************************************)
\* C26: a turn that starts after another turn of the process has indexed
\* the context with the same set of source ids finds the Collection: it
\* makes no embedding call for indexing.
C26_CollectionKept ==
    \A i \in Slots :
        svcs[i].known => svcs[i].pc # "embedding" /\ svcs[i].embedded = <<>>

\* C27: no index call discards or creates the Collection of a context
\* while another index call on it is between discarding and storing, and
\* no search reads a Collection that has been discarded.
C27_WritesSerialized ==
    \A i \in Slots : ~svcs[i].overlapped /\ svcs[i].read # "discarded"

(***************************************************************************)
(* Specifications.                                                         *)
(***************************************************************************)
IdleIndex == IndexInit /\ ctx = <<"doc", 1>>
IdleTurn == TurnInit /\ env = [own |-> "valid", demo |-> FALSE, fk |-> TRUE] /\ db = EmptyStore
IdleStore == StoreInit /\ engine = "postgresql"
IdleProc == ProcInit /\ shared = FALSE
SpecChunkInit == ChunkInit /\ CleanInit /\ LoopInit /\ HashInit /\ IdleIndex /\ IdleTurn /\ IdleStore /\ IdleProc
SpecChunkNext ==
    \/ TypeChar /\ UNCHANGED <<storeVars, procVars, cleanVars, loopVars, hashVars, indexVars, turnVars>>
    \/ CallChunkText /\ UNCHANGED <<storeVars, procVars, cleanVars, loopVars, hashVars, indexVars, turnVars>>
SpecChunk == SpecChunkInit /\ [][SpecChunkNext]_vars

SpecCleanInit == ChunkInit /\ CleanInit /\ LoopInit /\ HashInit /\ IdleIndex /\ IdleTurn /\ IdleStore /\ IdleProc
SpecCleanNext ==
    \/ AppendText /\ UNCHANGED <<storeVars, procVars, chunkVars, loopVars, hashVars, indexVars, turnVars>>
    \/ AppendEvent /\ UNCHANGED <<storeVars, procVars, chunkVars, loopVars, hashVars, indexVars, turnVars>>
    \/ CleanResponse /\ UNCHANGED <<storeVars, procVars, chunkVars, loopVars, hashVars, indexVars, turnVars>>
SpecClean == SpecCleanInit /\ [][SpecCleanNext]_vars

SpecLoopInit == ChunkInit /\ CleanInit /\ LoopInit /\ HashInit /\ IdleIndex /\ IdleTurn /\ IdleStore /\ IdleProc
SpecLoopNext ==
    \/ LoopBegin /\ UNCHANGED <<storeVars, procVars, chunkVars, cleanVars, hashVars, indexVars, turnVars>>
    \/ ModelRaises /\ UNCHANGED <<storeVars, procVars, chunkVars, cleanVars, hashVars, indexVars, turnVars>>
    \/ ModelNoChoices /\ UNCHANGED <<storeVars, procVars, chunkVars, cleanVars, hashVars, indexVars, turnVars>>
    \/ ModelRequestsTools /\ UNCHANGED <<storeVars, procVars, chunkVars, cleanVars, hashVars, indexVars, turnVars>>
    \/ ModelAnswers /\ UNCHANGED <<storeVars, procVars, chunkVars, cleanVars, hashVars, indexVars, turnVars>>
    \/ Search /\ UNCHANGED <<storeVars, procVars, chunkVars, cleanVars, hashVars, indexVars, turnVars>>
    \/ AppendToolResult /\ UNCHANGED <<storeVars, procVars, chunkVars, cleanVars, hashVars, indexVars, turnVars>>
    \/ Finish /\ UNCHANGED <<storeVars, procVars, chunkVars, cleanVars, hashVars, indexVars, turnVars>>
SpecLoop == SpecLoopInit /\ [][SpecLoopNext]_vars

SpecHashInit == ChunkInit /\ CleanInit /\ LoopInit /\ HashInit /\ IdleIndex /\ IdleTurn /\ IdleStore /\ IdleProc
SpecHashNext ==
    \/ AddSourceA /\ UNCHANGED <<storeVars, procVars, chunkVars, cleanVars, loopVars, indexVars, turnVars>>
    \/ AddSourceB /\ UNCHANGED <<storeVars, procVars, chunkVars, cleanVars, loopVars, indexVars, turnVars>>
    \/ HashSources /\ UNCHANGED <<storeVars, procVars, chunkVars, cleanVars, loopVars, indexVars, turnVars>>
SpecHash == SpecHashInit /\ [][SpecHashNext]_vars

SpecIndexInit == ChunkInit /\ CleanInit /\ LoopInit /\ HashInit /\ IndexInit /\ IdleTurn /\ IdleStore /\ IdleProc
SpecIndexNext ==
    \/ index_sources /\ UNCHANGED <<storeVars, procVars, chunkVars, cleanVars, loopVars, hashVars, turnVars>>
    \/ index_project_sources /\ UNCHANGED <<storeVars, procVars, chunkVars, cleanVars, loopVars, hashVars, turnVars>>
    \/ search /\ UNCHANGED <<storeVars, procVars, chunkVars, cleanVars, loopVars, hashVars, turnVars>>
    \/ search_project /\ UNCHANGED <<storeVars, procVars, chunkVars, cleanVars, loopVars, hashVars, turnVars>>
SpecIndex == SpecIndexInit /\ [][SpecIndexNext]_vars

SpecTurnInit == ChunkInit /\ CleanInit /\ LoopInit /\ HashInit /\ IndexInit /\ TurnInit /\ IdleStore /\ IdleProc
SpecTurnNext ==
    \/ BeginTurn /\ UNCHANGED <<storeVars, procVars, chunkVars, cleanVars, loopVars, hashVars>>
    \/ TurnLoopBegin /\ UNCHANGED <<storeVars, procVars, chunkVars, cleanVars, hashVars>>
    \/ Pull(ModelRaises) /\ UNCHANGED <<storeVars, procVars, chunkVars, cleanVars, hashVars>>
    \/ Pull(ModelNoChoices) /\ UNCHANGED <<storeVars, procVars, chunkVars, cleanVars, hashVars>>
    \/ Pull(\E n \in ToolCallCounts : ModelRequestsToolsN(n)) /\ UNCHANGED <<storeVars, procVars, chunkVars, cleanVars, hashVars>>
    \/ Pull(ModelAnswers) /\ UNCHANGED <<storeVars, procVars, chunkVars, cleanVars, hashVars>>
    \/ Pull(Search) /\ UNCHANGED <<storeVars, procVars, chunkVars, cleanVars, hashVars>>
    \/ Pull(AppendToolResult) /\ UNCHANGED <<storeVars, procVars, chunkVars, cleanVars, hashVars>>
    \/ Pull(Finish) /\ UNCHANGED <<storeVars, procVars, chunkVars, cleanVars, hashVars>>
    \/ AfterLoop /\ UNCHANGED <<storeVars, procVars, chunkVars, cleanVars, hashVars>>
    \/ GenerateTitle /\ UNCHANGED <<storeVars, procVars, chunkVars, cleanVars, hashVars>>
    \/ UpdateTitle /\ UNCHANGED <<storeVars, procVars, chunkVars, cleanVars, hashVars>>
    \/ FinishTurn /\ UNCHANGED <<storeVars, procVars, chunkVars, cleanVars, hashVars>>
    \/ Cancel /\ UNCHANGED <<storeVars, procVars, chunkVars, cleanVars, hashVars>>
SpecTurn == SpecTurnInit /\ [][SpecTurnNext]_vars

SpecChunkRunInit == ChunkInit /\ CleanInit /\ LoopInit /\ HashInit /\ IdleIndex /\ IdleTurn /\ IdleStore /\ IdleProc
SpecChunkRunNext ==
    \/ TypeChar /\ UNCHANGED <<storeVars, procVars, cleanVars, loopVars, hashVars, indexVars, turnVars>>
    \/ StartChunkText /\ UNCHANGED <<storeVars, procVars, cleanVars, loopVars, hashVars, indexVars, turnVars>>
    \/ ChunkStep /\ UNCHANGED <<storeVars, procVars, cleanVars, loopVars, hashVars, indexVars, turnVars>>
\* The interpreter goes on with the loop as long as it has a next turn.
SpecChunkRun == SpecChunkRunInit /\ [][SpecChunkRunNext]_vars /\ WF_chunkRun(ChunkStep)

\* Two requests, each one turn, and the deletions, on one database.
SpecStoreInit ==
    /\ ChunkInit /\ CleanInit /\ LoopInit /\ HashInit /\ IdleIndex
    /\ TurnInit /\ env = [own |-> "valid", demo |-> FALSE, fk |-> TRUE]
    /\ StoreInit /\ IdleProc
StoreRest == <<procVars, chunkVars, cleanVars, loopVars, hashVars, indexVars, env, req, txn, tpc, client, tlog, history, title>>
SpecStoreNext ==
    \/ \E i \in Slots : StartTurn(i) /\ UNCHANGED StoreRest
    \/ \E i \in Slots : SaveTurn(i) /\ UNCHANGED StoreRest
    \/ \E i \in Slots : TitleStep(i) /\ UNCHANGED StoreRest
    \/ clear_history /\ UNCHANGED StoreRest
    \/ delete_session /\ UNCHANGED StoreRest
SpecStore == SpecStoreInit /\ [][SpecStoreNext]_vars

\* Two requests of one process on one context, each with its service.
SpecProcessInit ==
    /\ ChunkInit /\ CleanInit /\ LoopInit /\ HashInit /\ IdleIndex /\ IdleTurn /\ IdleStore
    /\ ProcInit
ProcessRest == <<chunkVars, cleanVars, loopVars, hashVars, indexVars, turnVars, storeVars>>
SpecProcessNext ==
    \/ \E i \in Slots : IndexBegin(i) /\ UNCHANGED ProcessRest
    \/ \E i \in Slots : IndexEnd(i) /\ UNCHANGED ProcessRest
    \/ \E i \in Slots : SearchStep(i) /\ UNCHANGED ProcessRest
SpecProcess == SpecProcessInit /\ [][SpecProcessNext]_vars

====
